---- MODULE Spec2Model ----
(***************************************************************************)
(* State-machine model of the davefront chat client.                       *)
(*                                                                         *)
(*  - the session store (src/src/contexts/AuthContext.tsx) with the REST   *)
(*    wrapper's token injection (src/src/services/api.ts);                 *)
(*  - the chat view (src/src/components/ChatInterface.tsx), the sidebar    *)
(*    (src/unnamed/part_003) and the page switch (src/unnamed/part_002);   *)
(*  - the users page and the library page (src/src/pages/UsersPage.tsx)    *)
(*    with the upload modal (src/src/components/DocumentModal.tsx).        *)
(*                                                                         *)
(* Every asynchronous function is cut at its awaits: the part before an    *)
(* await is one action, the continuation after the response is another.    *)
(* The backend is external: each response is a nondeterministic choice     *)
(* between a failure and a success carrying a value from a small set.      *)
(***************************************************************************)
EXTENDS Integers, Sequences, FiniteSets, Bags, TLC

(***************************************************************************)
(* Bounds of the model.                                                    *)
(***************************************************************************)
\* number of session calls (login / register / startup check) in flight
MaxCalls == 2
\* number of conversation loads of the chat view in flight
MaxLoads == 2
\* number of send / delete / rename calls of the chat view in flight
MaxChatCalls == 2
\* transcript length up to which a further message can be sent
MaxTranscript == 2
\* number of requests of the users page and the library page in flight
MaxPageCalls == 2
\* number of documents a session uploads
MaxDocs == 2
\* users created in one session
MaxNewUsers == 1

(***************************************************************************)
(* Values.                                                                 *)
(***************************************************************************)
\* JavaScript null for string-valued cells (localStorage.getItem -> null)
NULL == "null"
\* JavaScript null for the User cell of the session store
NoUser == [id |-> "none", role |-> "none"]

Tokens == {"t1", "t2"}
Identities == {[id |-> "u1", role |-> "admin"], [id |-> "u2", role |-> "user"]}
Emails == {"a@x", "b@x"}
Passwords == {"pw1"}

\* JavaScript truthiness of a string-or-null cell: if (token) ...
Truthy(s) == s # NULL /\ s # ""

VARIABLES
    \* ---- session store -------------------------------------------------
    token,        \* localStorage['auth_token'] (NULL when absent)
    user,         \* AuthProvider state `user` (NoUser when null)
    authLoading,  \* AuthProvider state `isLoading`
    authMounted,  \* has the AuthProvider mount effect run
    calls,        \* bag of the session calls in flight
    loggedOut,    \* a logout has run and no login/register was started since
    ev,           \* what the last session step did (observation of the last handler)
    \* ---- page switch (MainContent) --------------------------------------
    currentPage,
    \* ---- chat view (ChatInterface) --------------------------------------
    messages,               \* the transcript
    chatLoading,            \* isLoading
    chatError,              \* error
    currentConversationId,
    conversationTitle,
    listenerConvId,         \* currentConversationId as the closure of the
                            \* 'conversation-selected' listener sees it
    loads,                  \* bag of the getMessages calls in flight
    isEditingTitle,
    editingTitle,
    chatCalls,              \* bag of the send / delete / rename calls in flight
    \* ---- sidebar (AppSidebar) -------------------------------------------
    sbMounted,              \* has the [user] effect run
    sbConversations,
    sbLoading,
    sbSelected,             \* selectedConversationId
    sbLoads,                \* bag of the getConversations calls in flight
    \* ---- users page / library page (one of them mounted at a time) -----
    pageMounted,            \* has the page's [currentUser] effect run
    users,                  \* UsersPage state `users`
    documents,              \* LibraryPage state `documents`
    pageLoading,            \* the mounted page's isLoading
    pageError,              \* the mounted page's error
    isModalOpen,
    editingDocument,
    \* ---- upload modal (DocumentModal) -----------------------------------
    ownerType,              \* formData.owner_type
    selectedFile,
    fileContent,
    modalLoading,           \* isLoading
    modalError,             \* error
    \* ---- user modal (UsersPage's isModalOpen / editingUser and UserModal) --
    userModal,              \* [isOpen, user, role, isLoading, error]
    pageCalls,              \* bag of the pages' requests and file reads in flight
    \* ---- backend ---------------------------------------------------------
    serverUsers,            \* the users the backend holds
    serverDocs,             \* the documents the backend holds
    docSeq,                 \* number of documents created in this session
    userSeq,                \* number of users created in this session
    \* ---- REST client ------------------------------------------------------
    failed,                 \* the wrapper call that has just failed, and how
    thrown,                 \* what that wrapper threw
    \* ---- observation ----------------------------------------------------
    lastSel,                \* the most recent selection and how its fetch went
    cev                     \* what the last chat/sidebar step did

authVars == <<token, user, authLoading, authMounted, calls, loggedOut>>
chatVars == <<currentPage, messages, chatLoading, chatError, currentConversationId,
              conversationTitle, listenerConvId, loads,
              isEditingTitle, editingTitle, chatCalls>>
sidebarVars == <<sbMounted, sbConversations, sbLoading, sbSelected, sbLoads>>
vars == <<token, user, authLoading, authMounted, calls, loggedOut, ev,
          currentPage, messages, chatLoading, chatError, currentConversationId,
          conversationTitle, listenerConvId, loads,
          isEditingTitle, editingTitle, chatCalls,
          sbMounted, sbConversations, sbLoading, sbSelected, sbLoads, lastSel, cev,
          pageMounted, users, documents, pageLoading, pageError,
          isModalOpen, editingDocument, ownerType, selectedFile, fileContent,
          modalLoading, modalError, userModal, pageCalls,
          serverUsers, serverDocs, docSeq, userSeq,
          failed, thrown>>

\* a session call: where it stands (pc), what it was given (email, password),
\* the requests it has issued so far (reqs), how each settled, the state it
\* started from (priorToken, priorUser) and whether it ran undisturbed (clean)
IdleCall ==
    [kind |-> "none", pc |-> "idle",
     email |-> "", password |-> "",
     reqs |-> <<>>,
     regOk |-> "na", postOk |-> "na", meOk |-> "na",
     tok |-> NULL, ident |-> NoUser,
     priorToken |-> NULL, priorUser |-> NoUser,
     clean |-> TRUE]

NoReq == [path |-> "none", auth |-> NULL, email |-> "", password |-> ""]
NoEv == [type |-> "init", call |-> IdleCall, outcome |-> "na", req |-> NoReq]

(***************************************************************************)
(* REST wrapper: bearer-token injection.                                   *)
(***************************************************************************)
\* the Authorization header the request interceptor attaches (NULL: none)
Interceptor_none(stored) == NULL
Interceptor(stored) == IF Truthy(stored) THEN stored ELSE NULL

\* a request as it leaves the client, given the token cell at that moment
Req(path, email, password, stored) ==
    [path |-> path, auth |-> Interceptor(stored), email |-> email, password |-> password]

\* what a call remembers of a request it issued
Sent(r) == [path |-> r.path, email |-> r.email, password |-> r.password]

(***************************************************************************)
(* Presentation shell: what AppContent renders for a store state.          *)
(***************************************************************************)
Screen ==
    IF authLoading THEN "loading"
    ELSE IF user = NoUser THEN "login"
    ELSE "shell"

isAuthenticated == user # NoUser

(***************************************************************************)
(* Session store: the state updates of login / register / checkAuthStatus. *)
(***************************************************************************)
\* login, after POST /login settles: localStorage.setItem on success only
TokenAfterLoginPost_clear(ok, accessToken, cur) == IF ok THEN accessToken ELSE NULL
TokenAfterLoginPost_keep(ok, accessToken, cur) == cur
TokenAfterLoginPost(ok, accessToken, cur) == IF ok THEN accessToken ELSE cur

\* checkAuthStatus, after GET /me settles: the catch removes the stored token
TokenAfterMe_keep(ok, cur) == cur
TokenAfterMe(ok, cur) == IF ok THEN cur ELSE NULL

\* checkAuthStatus, after GET /me settles: setUser on success only
UserAfterMe(ok, userData, cur) == IF ok THEN userData ELSE cur

\* checkAuthStatus, finally: setIsLoading(false)
LoadingAfterMe_stuck(cur) == cur
LoadingAfterMe(cur) == FALSE

\* register: the credentials handed to login after POST /register
LoginCredentials(userData) == [email |-> userData.email, password |-> userData.password]

\* register: login is reached only when authApi.register did not throw
RegisterProceeds_always(ok) == TRUE
RegisterProceeds(ok) == ok

\* the calls in flight are interchangeable, so they are kept as a bag
InFlight == BagToSet(calls)
CanStart == BagCardinality(calls) < MaxCalls
Put(B, k) == B (+) SetToBag({k})
Take(B, k) == B (-) SetToBag({k})

\* every call of B has seen a step of another operation
Disturb(B) ==
    LET dirty(k) == [k EXCEPT !.clean = FALSE]
        tidy(k) == [k EXCEPT !.clean = TRUE]
    IN [x \in {dirty(k) : k \in BagToSet(B)} |-> CopiesIn(x, B) + CopiesIn(tidy(x), B)]

\* call k, now k2, goes on waiting for the request r it has just issued
Continue(k, k2, type, r) ==
    /\ calls' = Put(Disturb(Take(calls, k)), [k2 EXCEPT !.reqs = Append(@, Sent(r))])
    /\ ev' = [type |-> type, call |-> [k2 EXCEPT !.reqs = Append(@, Sent(r))],
              outcome |-> "na", req |-> r]

\* call k, now k2, returns (resolved) or rethrows (rejected)
Finish(k, k2, outcome) ==
    /\ calls' = Disturb(Take(calls, k))
    /\ ev' = [type |-> "done", call |-> k2, outcome |-> outcome, req |-> NoReq]

\* AuthProvider mount effect: validate a stored token, else stop loading
AuthMount ==
    /\ ~authMounted
    /\ authMounted' = TRUE
    /\ IF Truthy(token)
       THEN /\ Continue(IdleCall,
                        [IdleCall EXCEPT !.kind = "startup", !.pc = "getMe",
                                         !.priorToken = token, !.priorUser = user],
                        "mount", Req("/me", "", "", token))
            /\ authLoading' = authLoading
       ELSE /\ authLoading' = FALSE
            /\ calls' = calls
            /\ ev' = [type |-> "mount", call |-> IdleCall, outcome |-> "na", req |-> NoReq]
    /\ UNCHANGED <<token, user, loggedOut>>

\* login(credentials), up to the await of POST /login
Login(email, password) ==
    /\ authMounted /\ Screen = "login"
    /\ CanStart
    /\ Continue(IdleCall,
                [IdleCall EXCEPT !.kind = "login", !.pc = "postLogin",
                                 !.email = email, !.password = password,
                                 !.priorToken = token, !.priorUser = user],
                "login", Req("/login", email, password, token))
    /\ loggedOut' = FALSE
    /\ UNCHANGED <<token, user, authLoading, authMounted>>

\* register(userData), up to the await of POST /register
Register(email, password) ==
    /\ authMounted /\ Screen = "login"
    /\ CanStart
    /\ Continue(IdleCall,
                [IdleCall EXCEPT !.kind = "register", !.pc = "postRegister",
                                 !.email = email, !.password = password,
                                 !.priorToken = token, !.priorUser = user],
                "register", Req("/register", email, password, token))
    /\ loggedOut' = FALSE
    /\ UNCHANGED <<token, user, authLoading, authMounted>>

\* register, after POST /register settles: login with the same credentials,
\* or rethrow
RegisterResp(k, ok) ==
    /\ k \in InFlight /\ k.pc = "postRegister"
    /\ LET cr == LoginCredentials([email |-> k.email, password |-> k.password])
           k2 == [k EXCEPT !.regOk = IF ok THEN "ok" ELSE "fail"]
       IN IF RegisterProceeds(ok)
          THEN Continue(k, [k2 EXCEPT !.pc = "postLogin"], "registerResp",
                        Req("/login", cr.email, cr.password, token))
          ELSE Finish(k, k2, "rejected")
    /\ UNCHANGED <<token, user, authLoading, authMounted, loggedOut>>

\* login, after POST /login settles: store the token and call
\* checkAuthStatus (which issues GET /me), or rethrow
LoginResp(k, ok, accessToken) ==
    /\ k \in InFlight /\ k.pc = "postLogin"
    /\ token' = TokenAfterLoginPost(ok, accessToken, token)
    /\ LET k2 == [k EXCEPT !.postOk = IF ok THEN "ok" ELSE "fail",
                           !.tok = IF ok THEN accessToken ELSE NULL]
       IN IF ok
          THEN Continue(k, [k2 EXCEPT !.pc = "getMe"], "loginResp",
                        Req("/me", "", "", token'))
          ELSE Finish(k, k2, "rejected")
    /\ UNCHANGED <<user, authLoading, authMounted, loggedOut>>

\* checkAuthStatus, after GET /me settles; the caller (login, register or
\* the mount effect) then resolves: checkAuthStatus never rethrows
MeResp(k, ok, userData) ==
    /\ k \in InFlight /\ k.pc = "getMe"
    /\ user' = UserAfterMe(ok, userData, user)
    /\ token' = TokenAfterMe(ok, token)
    /\ authLoading' = LoadingAfterMe(authLoading)
    /\ Finish(k, [k EXCEPT !.meOk = IF ok THEN "ok" ELSE "fail",
                           !.ident = IF ok THEN userData ELSE NoUser],
              "resolved")
    /\ UNCHANGED <<authMounted, loggedOut>>

\* logout()
Logout ==
    /\ authMounted /\ Screen = "shell"
    /\ token' = NULL
    /\ user' = NoUser
    /\ loggedOut' = TRUE
    /\ calls' = Disturb(calls)
    /\ ev' = [type |-> "logout", call |-> IdleCall, outcome |-> "na", req |-> NoReq]
    /\ UNCHANGED <<authLoading, authMounted>>

(***************************************************************************)
(* Backend values the chat view and the sidebar receive.                   *)
(***************************************************************************)
ConvIds == {"A", "B"}
Pages == {"chat", "users", "library"}

convA == [id |-> "A", title |-> "Alpha"]
convB == [id |-> "B", title |-> ""]
\* bodies GET /conversations may answer with
ConvLists == {<<>>, <<convB>>, <<convA, convB>>}

\* a persisted Message of conversation conv
PMsg(conv, n, role) ==
    [id |-> conv \o ToString(n), conversation_id |-> conv, user_id |-> "u1",
     content |-> "text " \o conv \o ToString(n), role |-> role, timestamp |-> [iso |-> n]]
\* bodies GET /conversations/{conv}/messages may answer with
MsgLists(conv) ==
    {<<>>, <<PMsg(conv, 1, "user")>>, <<PMsg(conv, 1, "user"), PMsg(conv, 2, "assistant")>>}

\* ways a request can fail: an HTTP error response with or without a detail
\* string, no response at all, or an error that is not an axios error
Failures ==
    {[axios |-> TRUE, detail |-> "backend detail", status |-> 404],
     [axios |-> TRUE, detail |-> "", status |-> 0],
     [axios |-> FALSE, detail |-> "", status |-> 0]}

NoFailure == [axios |-> FALSE, detail |-> "", status |-> 0]
\* an HTTP error response with a detail string
DetailFailure == [axios |-> TRUE, detail |-> "backend detail", status |-> 404]

\* what a wrapper of the REST client throws for a failure
Thrown(f, fallback) ==
    IF f.axios
    THEN [isError |-> FALSE, message |-> "",
          detail |-> IF f.detail # "" THEN f.detail ELSE fallback,
          status |-> IF f.status # 0 THEN f.status ELSE 500]
    ELSE [isError |-> TRUE, message |-> "An unexpected error occurred",
          detail |-> "", status |-> 0]

\* the operations of the REST client whose code is at hand
Operations ==
    {"login", "register", "getCurrentUser", "sendMessage", "getConversations",
     "createConversation", "getMessages", "healthCheck",
     "getAllUsers", "createUser", "updateUser", "deleteUser",
     "getDocuments", "createDocument", "createSharedDocument", "updateDocument",
     "deleteDocument"}

\* the text a wrapper uses when the response carries no detail
Fallback(op) ==
    CASE op = "login" -> "Login failed"
      [] op = "register" -> "Registration failed"
      [] op = "getCurrentUser" -> "Failed to get user info"
      [] op = "sendMessage" -> "An error occurred"
      [] op = "getConversations" -> "Failed to get conversations"
      [] op = "createConversation" -> "Failed to create conversation"
      [] op = "getMessages" -> "Failed to get messages"
      [] op = "getAllUsers" -> "Failed to get users"
      [] op = "createUser" -> "Failed to create user"
      [] op = "updateUser" -> "Failed to update user"
      [] op = "deleteUser" -> "Failed to delete user"
      [] op = "getDocuments" -> "Failed to get documents"
      [] op = "createDocument" -> "Failed to create document"
      [] op = "createSharedDocument" -> "Failed to create shared document"
      [] op = "updateDocument" -> "Failed to update document"
      [] op = "deleteDocument" -> "Failed to delete document"
      [] OTHER -> ""

\* the failures a request can meet: an error response with or without a
\* detail string and with or without a status, or an error that is not an
\* axios error
AllFailures ==
    {[axios |-> TRUE, detail |-> dt, status |-> st] :
        dt \in {"", "backend detail"}, st \in {0, 400, 404, 500}}
    \cup {NoFailure}

\* what operation op of the REST client throws for failure f: healthCheck
\* throws an Error whatever the failure
OpThrown_uniform(op, f) == Thrown(f, Fallback(op))
OpThrown(op, f) ==
    IF op = "healthCheck"
    THEN [isError |-> TRUE, message |-> "Backend is not available",
          detail |-> "", status |-> 0]
    ELSE Thrown(f, Fallback(op))

NoFailed == [op |-> "none", failure |-> NoFailure]
NoThrown == [isError |-> FALSE, message |-> "", detail |-> "", status |-> 0]

\* a call of wrapper operation op meets failure f
WrapperFails(op, f) ==
    /\ failed' = [op |-> op, failure |-> f]
    /\ thrown' = OpThrown(op, f)

GetMessagesThrown(f) == Thrown(f, "Failed to get messages")

(***************************************************************************)
(* Chat view: loadConversation and startNewChat.                           *)
(***************************************************************************)
NoSources == <<>>
NewChatTitle == "New Chat"

\* new Date(msg.timestamp)
ParseDate(ts) == [ms |-> ts.iso]

\* loadConversation: a persisted message as a transcript entry
ToChatMessage(msg) ==
    [id |-> msg.id, role |-> msg.role, content |-> msg.content,
     timestamp |-> ParseDate(msg.timestamp), sources |-> NoSources]

ToChatMessages(data) == [i \in 1..Len(data) |-> ToChatMessage(data[i])]

\* loadConversation: setMessages(chatMessages)
MessagesAfterLoad_append(prev, chatMessages) == prev \o chatMessages
MessagesAfterLoad(prev, chatMessages) == chatMessages

\* loadConversation, catch: the string shown for what getMessages threw
LoadErrorMessage(err) ==
    IF err.isError THEN err.message ELSE "Failed to load conversation"

\* loadConversation: the early return on the conversation the closure holds
AlreadyActive(conversationId, seen) == conversationId = seen

\* handleConversationClick: conversation?.title || 'Conversation'
ClickTitle(conversation) ==
    IF conversation.title # "" THEN conversation.title ELSE "Conversation"

ChatMounted_always == TRUE
ChatMounted == currentPage = "chat"
LiveLoads == {k \in BagToSet(loads) : k.live}

(***************************************************************************)
(* Chat view: text, transcript entries and the requests of send, delete    *)
(* and rename.                                                             *)
(***************************************************************************)
\* String.prototype.trim on the texts of the model (blanks are spaces)
RECURSIVE TrimStart(_)
TrimStart(s) ==
    IF Len(s) > 0 /\ SubSeq(s, 1, 1) = " " THEN TrimStart(SubSeq(s, 2, Len(s))) ELSE s
RECURSIVE TrimEnd(_)
TrimEnd(s) ==
    IF Len(s) > 0 /\ SubSeq(s, Len(s), Len(s)) = " "
    THEN TrimEnd(SubSeq(s, 1, Len(s) - 1)) ELSE s
Trim(s) == TrimEnd(TrimStart(s))

\* !content.trim()
IsBlank(s) == Trim(s) = ""

\* handleSendMessage: the title derived from the first message of a new chat
TitleLimit == 50
Ellipsis == "..."
TitleFromMessage_always(content) == SubSeq(content, 1, TitleLimit) \o Ellipsis
TitleFromMessage(content) ==
    IF Len(content) > TitleLimit
    THEN SubSeq(content, 1, TitleLimit) \o Ellipsis
    ELSE content

\* texts typed into the chat input: empty, blank, of exactly TitleLimit
\* characters (the first a blank), and of TitleLimit + 1 characters
Text50 == " 123456789012345678901234567890123456789 123456789"
Contents == {"", "  ", Text50, Text50 \o "Z"}
\* texts typed into the title field
TitleInputs == {"", "  ", " Renamed "}
\* readings of the client's clock
Times == {1, 2}
\* the client's clock does not run backwards: a reading is not earlier than
\* the entries addMessage stamped before (their id is a reading of the
\* clock); loaded entries carry the backend's timestamps, which nothing
\* compares with the client's clock
ClockReads(now, transcript) ==
    \A i \in 1..Len(transcript) :
        (\E t \in Times : transcript[i].id = ToString(t)) => transcript[i].timestamp.ms <= now
\* addMessage reads the clock twice: Date.now() for the id (idNow), then
\* new Date() for the timestamp (now)
Readings == {r \in Times \X Times : r[1] <= r[2]}

\* citations POST /chat may return
Source1 == [document_id |-> "d1", owner_type |-> "shared",
            content_excerpt |-> "excerpt", metadata |-> "m"]
SourceLists == {NoSources, <<Source1>>}

\* addMessage: the entry appended to the transcript
NewMessage(role, content, sources, idNow, now) ==
    [id |-> ToString(idNow), role |-> role, content |-> content,
     timestamp |-> [ms |-> now], sources |-> sources]

\* handleSendMessage: chat_history, from the transcript the closure holds
ChatHistory(transcript) ==
    [i \in 1..Len(transcript) |->
        [role |-> transcript[i].role, content |-> transcript[i].content]]

\* a request of the chat view as it leaves the client
NoChatReq == [method |-> "none", path |-> "", message |-> "", chat_history |-> <<>>,
              conversation_id |-> NULL, title |-> ""]
\* chatApi.sendMessage: conversation_id is currentConversationId || undefined
SendRequest_noId(content, transcript, convId) ==
    [NoChatReq EXCEPT !.method = "POST", !.path = "/chat", !.message = content,
                      !.chat_history = ChatHistory(transcript)]
SendRequest(content, transcript, convId) ==
    [NoChatReq EXCEPT !.method = "POST", !.path = "/chat", !.message = content,
                      !.chat_history = ChatHistory(transcript),
                      !.conversation_id = IF Truthy(convId) THEN convId ELSE NULL]
\* chatApi.deleteConversation(id)
DeleteRequest(convId) ==
    [NoChatReq EXCEPT !.method = "DELETE", !.path = "/conversations/" \o convId]
\* chatApi.renameConversation(id, title)
RenameRequest(convId, title) ==
    [NoChatReq EXCEPT !.method = "PUT", !.path = "/conversations/" \o convId,
                      !.title = title]

\* bodies POST /chat may answer a request with: the conversation the message
\* went to (a new one, "N", when the request named none) or no id at all
ChatResponses(req) ==
    {[response |-> "reply", sources |-> src, conversation_id |-> c] :
        src \in SourceLists,
        c \in IF req.conversation_id = NULL THEN {NULL, "N"} ELSE {req.conversation_id}}
NoChatResponse == [response |-> "", sources |-> NoSources, conversation_id |-> NULL]
\* bodies PUT /conversations/{id} may answer with
RenameResponses(req) ==
    {[id |-> "x", title |-> t] : t \in {req.title, "Server title"}}

SendMessageThrown(f) == Thrown(f, "An error occurred")
DeleteConversationThrown(f) == Thrown(f, "Failed to delete conversation")
RenameConversationThrown(f) == Thrown(f, "Failed to rename conversation")

SendErrorMessage_none(err) == ""
\* handleSendMessage, catch: err instanceof Error ? err.message : '...'
SendErrorMessage(err) == IF err.isError THEN err.message ELSE "An error occurred"
\* handleDeleteConversation / handleSaveTitle, catch: err.detail || fallback
DetailOr(err, fallback) ==
    IF ~err.isError /\ err.detail # "" THEN err.detail ELSE fallback

\* a send, delete or rename call of the chat view: what it was given
\* (content: the message, or the new title), the conversation id its closure
\* holds (conv), the request it issued, the transcript, id and title it started from, whether its view is still
\* mounted (live) and whether it ran undisturbed (clean)
NoCall ==
    [kind |-> "none", content |-> "", conv |-> NULL, req |-> NoChatReq,
     prev |-> <<>>, prevId |-> NULL, prevTitle |-> "", live |-> FALSE, clean |-> FALSE]

ChatCalls == BagToSet(chatCalls)

\* every call of B has seen a step of another operation on the chat view
Tainted(B) ==
    LET f(k) == [k EXCEPT !.clean = FALSE]
    IN [x \in {f(k) : k \in BagToSet(B)} |->
           BagCardinality([k \in {j \in BagToSet(B) : f(j) = x} |-> CopiesIn(k, B)])]

\* the calls of an unmounted ChatInterface: their setState calls do nothing
Abandoned(B) ==
    LET f(k) == [k EXCEPT !.clean = FALSE, !.live = FALSE]
    IN [x \in {f(k) : k \in BagToSet(B)} |->
           BagCardinality([k \in {j \in BagToSet(B) : f(j) = x} |-> CopiesIn(k, B)])]

\* JavaScript null for the Document cell of the library page
NoDoc == [id |-> "none", owner_type |-> "none", can_edit |-> FALSE, can_delete |-> FALSE]
\* a shared document the backend may hold before the session starts
SharedDoc == [id |-> "s1", owner_type |-> "shared", can_edit |-> TRUE, can_delete |-> FALSE]
\* a document of the member's own the backend may hold before the session starts
OwnDoc == [id |-> "p1", owner_type |-> "user", can_edit |-> TRUE, can_delete |-> TRUE]
\* the document the backend stores for the n-th upload of the session
CreatedDoc(n, type) ==
    [id |-> "d" \o ToString(n), owner_type |-> type, can_edit |-> TRUE, can_delete |-> TRUE]
\* UsersPage's isModalOpen and editingUser with UserModal's form role,
\* isLoading and error, as the mount leaves them
NoUserModal == [isOpen |-> FALSE, user |-> NoUser, role |-> "user",
                isLoading |-> FALSE, error |-> ""]
\* the account the backend stores for the n-th user created in the session
CreatedUser(n) == [id |-> "n" \o ToString(n), role |-> "user"]
\* the file the file input offers
File1 == [name |-> "notes.txt", content |-> "notes"]
NoFile == [name |-> "", content |-> ""]

\* a request of the users page or the library page: what it issued, the
\* collection the backend will answer a GET with (body), whether its page is
\* still mounted (live) and, for the GET /documents that follows a create,
\* the created document with the view's list and the backend's collection
\* as they were before the creation
NoPageCall ==
    [kind |-> "none", method |-> "", path |-> "", target |-> "", content |-> "",
     body |-> <<>>, live |-> FALSE,
     created |-> NoDoc, viewBefore |-> <<>>, serverBefore |-> <<>>,
     newest |-> <<>>]

NoLoad == [conv |-> NULL, title |-> "", live |-> FALSE, latest |-> FALSE, clean |-> FALSE]
NoSel == [conv |-> NULL, state |-> "none", chat |-> <<>>, superseded |-> {}]
\* what the last step of the chat view or the sidebar did: for a settled
\* load the load, the body and the transcript before; for a send, delete or
\* rename step the call, the body received, whether a prompt was accepted,
\* whether the step issued a request of its own (issued) and whether it
\* made the sidebar issue GET /conversations (listFetch)
NoCev == [type |-> "init", conv |-> NULL, load |-> NoLoad, ok |-> FALSE,
          data |-> <<>>, prev |-> <<>>,
          call |-> NoCall, resp |-> NoChatResponse, newTitle |-> "",
          accepted |-> FALSE, issued |-> FALSE, listFetch |-> FALSE,
          pcall |-> NoPageCall, failure |-> NoFailure]

\* every load of B has been overtaken by another operation on the chat view
Overtaken(B, newer) ==
    LET f(k) == [k EXCEPT !.clean = FALSE, !.latest = IF newer THEN FALSE ELSE @]
    IN [x \in {f(k) : k \in BagToSet(B)} |->
           BagCardinality([k \in {j \in BagToSet(B) : f(j) = x} |-> CopiesIn(k, B)])]

\* the loads of an unmounted ChatInterface: their setState calls do nothing
Orphaned(B) ==
    LET f(k) == [k EXCEPT !.clean = FALSE, !.latest = FALSE, !.live = FALSE]
    IN [x \in {f(k) : k \in BagToSet(B)} |->
           BagCardinality([k \in {j \in BagToSet(B) : f(j) = x} |-> CopiesIn(k, B)])]

(***************************************************************************)
(* Users page, library page and the upload modal.                          *)
(*                                                                         *)
(* The backend's collections are part of the state: a DELETE or a POST     *)
(* takes effect when its response is handled, and a GET is answered with   *)
(* the collection as it stands when the request is issued.                 *)
(***************************************************************************)
PageCalls == BagToSet(pageCalls)

\* the calls of an unmounted page: their setState calls do nothing
Unmounted(B) ==
    LET f(k) == [k EXCEPT !.live = FALSE]
    IN [x \in {f(k) : k \in BagToSet(B)} |->
           BagCardinality([k \in {j \in BagToSet(B) : f(j) = x} |-> CopiesIn(k, B)])]

\* a full fetch k is issued next to the calls B: every fetch of the same
\* list still in flight records the body of the fetch issued last (newest)
Superseded(B, k) ==
    LET f(j) == IF j.kind = k.kind THEN [j EXCEPT !.newest = k.body] ELSE j
    IN [x \in {f(j) : j \in BagToSet(B)} |->
           BagCardinality([j \in {i \in BagToSet(B) : f(i) = x} |-> CopiesIn(j, B)])]
IssueFetch(B, k) == Put(Superseded(B, k), [k EXCEPT !.newest = k.body])

Without(list, id) == SelectSeq(list, LAMBDA x : x.id # id)
Ids(list) == {list[i].id : i \in 1..Len(list)}

\* UsersPage effect: if (currentUser?.role === 'admin') loadUsers()
LoadsUsers_anyUser(u) == u # NoUser
LoadsUsers(u) == u # NoUser /\ u.role = "admin"

\* what UsersPage renders: if (currentUser?.role !== 'admin') return <Access Denied>
UsersView(u) == IF u # NoUser /\ u.role = "admin" THEN "list" ELSE "denied"

\* LibraryPage effect: if (currentUser) loadDocuments()
LoadsDocuments(u) == u # NoUser

\* handleDeleteUser / handleDeleteDocument: if (!confirm(...)) return
PageDeleteProceeds_always(accepted) == TRUE
PageDeleteProceeds(accepted) == accepted

\* the isEditMode prop of DocumentModal: LibraryPage passes none, the
\* default is false
IsEditMode(document) == FALSE

\* DocumentModal effect on [isOpen, isEditMode, document], for isOpen:
\* the owner type the form starts with
OwnerTypeOnOpen(isEditMode, document) ==
    IF isEditMode /\ document # NoDoc
    THEN IF Truthy(document.owner_type) THEN document.owner_type ELSE "user"
    ELSE "user"

\* the owner-type selector is rendered for !isEditMode && isAdmin
ToggleShown_anyUser(isEditMode, u) == ~isEditMode
ToggleShown(isEditMode, u) == ~isEditMode /\ u # NoUser /\ u.role = "admin"

\* handleSubmit: formData.owner_type === 'shared' ? createSharedDocument : createDocument
CreatePath(type) == IF type = "shared" THEN "/documents/shared" ELSE "/documents"
CreateFallback(type) ==
    IF type = "shared" THEN "Failed to create shared document" ELSE "Failed to create document"

\* handleModalSuccess: the list is loaded again after a create
RefetchesAfterCreate_never(ok) == FALSE
RefetchesAfterCreate(ok) == ok

\* the state a freshly mounted page (with its modal) starts in
PageFresh ==
    /\ pageMounted' = FALSE
    /\ users' = <<>>
    /\ documents' = <<>>
    /\ pageLoading' = FALSE
    /\ pageError' = ""
    /\ isModalOpen' = FALSE
    /\ editingDocument' = NoDoc
    /\ ownerType' = "user"
    /\ selectedFile' = NoFile
    /\ fileContent' = ""
    /\ modalLoading' = FALSE
    /\ modalError' = NULL
    /\ userModal' = NoUserModal

\* the page switch replaces the mounted page
PageUnmount ==
    /\ PageFresh
    /\ pageCalls' = Unmounted(pageCalls)
    /\ UNCHANGED <<serverUsers, serverDocs, docSeq, userSeq>>

docModalVars == <<isModalOpen, editingDocument, ownerType, selectedFile, fileContent,
                  modalLoading, modalError>>
modalVars == <<docModalVars, userModal>>
backendVars == <<serverUsers, serverDocs, docSeq, userSeq>>
pageVars == <<pageMounted, users, documents, pageLoading, pageError,
              isModalOpen, editingDocument, ownerType, selectedFile, fileContent,
              modalLoading, modalError, userModal, pageCalls,
              serverUsers, serverDocs, docSeq, userSeq>>
\* what a page step leaves alone
offPage == <<chatVars, sidebarVars, lastSel>>

(***************************************************************************)
(* Page switch, sidebar and chat view.                                     *)
(***************************************************************************)
\* the state a freshly mounted ChatInterface starts in
ChatFresh ==
    /\ messages' = <<>>
    /\ chatLoading' = FALSE
    /\ chatError' = NULL
    /\ currentConversationId' = NULL
    /\ conversationTitle' = NewChatTitle
    /\ listenerConvId' = NULL
    /\ isEditingTitle' = FALSE
    /\ editingTitle' = ""

\* MainContent.navigateTo(page), as the navigation menu calls it; leaving
\* the chat page unmounts the ChatInterface, returning to it mounts a new one
Navigate(page) ==
    /\ page # currentPage
    /\ currentPage' = page
    /\ ChatFresh
    /\ loads' = Orphaned(loads)
    /\ chatCalls' = Abandoned(chatCalls)
    /\ lastSel' = NoSel
    /\ cev' = [NoCev EXCEPT !.type = "navigate"]
    /\ PageUnmount
    /\ UNCHANGED sidebarVars

\* AppSidebar.loadConversations, up to the await of GET /conversations;
\* seen is selectedConversationId as the calling closure holds it
StartListLoad(seen) ==
    /\ sbLoading' = TRUE
    /\ sbLoads' = Put(sbLoads, [seen |-> seen])

\* AppSidebar effect on [user]
SidebarMount ==
    /\ ~sbMounted
    /\ sbMounted' = TRUE
    /\ IF user # NoUser
       THEN StartListLoad(sbSelected)
       ELSE UNCHANGED <<sbLoading, sbLoads>>
    /\ cev' = [NoCev EXCEPT !.type = "sidebarMount"]
    /\ UNCHANGED <<sbConversations, sbSelected, lastSel>>
    /\ UNCHANGED chatVars

\* loadConversations, after GET /conversations settles
ConversationsResp(r, ok, data) ==
    /\ r \in BagToSet(sbLoads)
    /\ sbLoads' = Take(sbLoads, r)
    /\ sbConversations' = IF ok THEN data ELSE sbConversations
    /\ sbSelected' = IF ok /\ Len(data) > 0 /\ ~Truthy(r.seen) THEN data[1].id ELSE sbSelected
    /\ sbLoading' = FALSE
    /\ cev' = [NoCev EXCEPT !.type = "listDone", !.ok = ok,
                            !.data = IF ok THEN data ELSE <<>>]
    /\ UNCHANGED <<sbMounted, lastSel>>
    /\ UNCHANGED chatVars

\* AppSidebar.handleConversationClick on a rendered list entry, with the
\* 'conversation-selected' listener of a mounted ChatInterface
\* (handleConversationSelect -> loadConversation up to its await)
ConversationClick(i) ==
    /\ sbMounted /\ ~sbLoading
    /\ i \in 1..Len(sbConversations)
    /\ LET conversation == sbConversations[i]
           title == ClickTitle(conversation)
           k == [conv |-> conversation.id, title |-> title, live |-> TRUE,
                 latest |-> TRUE, clean |-> TRUE]
       IN /\ sbSelected' = conversation.id
          /\ currentPage' = "chat"
          /\ IF ChatMounted
             THEN IF AlreadyActive(conversation.id, listenerConvId)
                  THEN /\ UNCHANGED <<messages, chatLoading, chatError, currentConversationId,
                                      conversationTitle, listenerConvId, loads, lastSel,
                                      isEditingTitle, editingTitle, chatCalls>>
                       /\ cev' = [NoCev EXCEPT !.type = "select", !.conv = conversation.id]
                  ELSE /\ BagCardinality(loads) < MaxLoads
                       /\ chatLoading' = TRUE
                       /\ chatError' = NULL
                       /\ currentConversationId' = conversation.id
                       /\ conversationTitle' = title
                       /\ loads' = Put(Overtaken(loads, TRUE), k)
                       /\ chatCalls' = Tainted(chatCalls)
                       /\ lastSel' = [conv |-> conversation.id, state |-> "pending", chat |-> <<>>,
                                      superseded |-> {j.conv : j \in LiveLoads} \ {conversation.id}]
                       /\ cev' = [NoCev EXCEPT !.type = "select", !.conv = conversation.id,
                                               !.load = k, !.prev = messages]
                       /\ UNCHANGED <<messages, listenerConvId, isEditingTitle, editingTitle>>
             ELSE \* no listener is mounted: the event is lost; navigateTo mounts the view
                  /\ ChatFresh
                  /\ loads' = loads
                  /\ chatCalls' = chatCalls
                  /\ lastSel' = NoSel
                  /\ cev' = [NoCev EXCEPT !.type = "selectLost", !.conv = conversation.id]
    /\ IF ChatMounted THEN UNCHANGED pageVars ELSE PageUnmount
    /\ UNCHANGED <<sbMounted, sbConversations, sbLoading, sbLoads>>

\* loadConversation, after getMessages settles (f: the failure, when not ok)
LoadResp(k, ok, data, f) ==
    /\ k \in BagToSet(loads)
    /\ LET chatMessages == ToChatMessages(data)
       IN IF k.live
          THEN /\ messages' = IF ok THEN MessagesAfterLoad(messages, chatMessages) ELSE messages
               /\ chatError' = IF ok THEN chatError ELSE LoadErrorMessage(GetMessagesThrown(f))
               /\ chatLoading' = FALSE
               /\ loads' = Overtaken(Take(loads, k), FALSE)
               /\ chatCalls' = Tainted(chatCalls)
               /\ lastSel' = IF k.latest
                             THEN [lastSel EXCEPT !.state = IF ok THEN "ok" ELSE "fail",
                                                  !.chat = IF ok THEN chatMessages ELSE <<>>]
                             ELSE lastSel
               /\ cev' = [NoCev EXCEPT !.type = "loadDone", !.conv = k.conv, !.load = k,
                                       !.ok = ok, !.data = data, !.prev = messages,
                                       !.failure = IF ok THEN NoFailure ELSE f]
          ELSE /\ loads' = Take(loads, k)
               /\ cev' = [NoCev EXCEPT !.type = "loadDropped", !.conv = k.conv]
               /\ UNCHANGED <<messages, chatError, chatLoading, lastSel, chatCalls>>
    /\ UNCHANGED <<currentPage, currentConversationId, conversationTitle, listenerConvId,
                   isEditingTitle, editingTitle>>
    /\ UNCHANGED sidebarVars

\* AppSidebar.handleNewChat, with the 'new-chat-requested' listener of a
\* mounted ChatInterface (startNewChat), up to the await of GET /conversations
NewChat ==
    /\ sbMounted
    /\ BagCardinality(sbLoads) < MaxLoads
    /\ sbSelected' = NULL
    /\ currentPage' = "chat"
    /\ IF ChatMounted
       THEN /\ messages' = <<>>
            /\ currentConversationId' = NULL
            /\ conversationTitle' = NewChatTitle
            /\ chatError' = NULL
            /\ loads' = Overtaken(loads, FALSE)
            /\ chatCalls' = Tainted(chatCalls)
            /\ UNCHANGED <<chatLoading, listenerConvId, isEditingTitle, editingTitle>>
       ELSE /\ ChatFresh
            /\ loads' = loads
            /\ chatCalls' = chatCalls
    /\ IF user # NoUser
       THEN StartListLoad(sbSelected)
       ELSE UNCHANGED <<sbLoading, sbLoads>>
    /\ lastSel' = NoSel
    /\ cev' = [NoCev EXCEPT !.type = "newChat"]
    /\ IF ChatMounted THEN UNCHANGED pageVars ELSE PageUnmount
    /\ UNCHANGED <<sbMounted, sbConversations>>

(***************************************************************************)
(* Chat view: send, delete and rename; the sidebar's event listener.       *)
(***************************************************************************)
\* the events the mounted sidebar has a listener for
SidebarEvents == {"conversation-created"}
SidebarHears(event) == sbMounted /\ event \in SidebarEvents /\ user # NoUser

\* window.dispatchEvent(event) as the sidebar sees it: its listener closes
\* over the render of the [user] effect, where selectedConversationId is
\* still null
Dispatched(event) ==
    IF SidebarHears(event)
    THEN /\ BagCardinality(sbLoads) < MaxLoads
         /\ StartListLoad(NULL)
    ELSE UNCHANGED <<sbLoading, sbLoads>>

\* setMessages(prev => [...prev, newMessage])
AddMessage_prepend(prev, newMessage) == <<newMessage>> \o prev
AddMessage(prev, newMessage) == Append(prev, newMessage)

\* handleSendMessage: the assistant entry is added on success only
MessagesAfterSend_always(ok, prev, reply) == AddMessage(prev, reply)
MessagesAfterSend(ok, prev, reply) == IF ok THEN AddMessage(prev, reply) ELSE prev

\* handleSendMessage: !currentConversationId && response.conversation_id
AdoptsConversation(closureId, resp) == ~Truthy(closureId) /\ Truthy(resp.conversation_id)

\* handleDeleteConversation: if (!confirm(...)) return
DeleteProceeds_always(accepted) == TRUE
DeleteProceeds(accepted) == accepted

\* handleDeleteConversation: startNewChat() runs whenever the call resolved
ResetsAfterDelete_never(ok) == FALSE
ResetsAfterDelete(ok) == ok

\* handleSaveTitle: the early return
SaveTitleProceeds_always(convId, typed) == Truthy(convId)
SaveTitleProceeds(convId, typed) == Truthy(convId) /\ ~IsBlank(typed)

\* handleSaveTitle: setConversationTitle(updatedConversation.title)
TitleAfterRename_typed(ok, updated, typed, cur) == IF ok THEN typed ELSE cur
TitleAfterRename(ok, updated, typed, cur) == IF ok THEN updated.title ELSE cur

\* handleSendMessage(content), up to the await of POST /chat; the input is
\* disabled while isLoading
Send(content, idNow, now) ==
    /\ ChatMounted /\ ~chatLoading
    /\ ClockReads(idNow, messages) /\ idNow <= now
    /\ IF IsBlank(content)
       THEN /\ cev' = [NoCev EXCEPT !.type = "sendBlank"]
            /\ UNCHANGED <<messages, chatLoading, chatError, chatCalls, loads>>
       ELSE LET k == [NoCall EXCEPT !.kind = "send", !.content = content,
                                    !.conv = currentConversationId,
                                    !.req = SendRequest(content, messages, currentConversationId),
                                    !.prev = messages,
                                    !.prevId = currentConversationId,
                                    !.prevTitle = conversationTitle,
                                    !.live = TRUE, !.clean = TRUE]
            IN /\ Len(messages) < MaxTranscript
               /\ BagCardinality(chatCalls) < MaxChatCalls
               /\ messages' = AddMessage(messages, NewMessage("user", content, NoSources, idNow, now))
               /\ chatLoading' = TRUE
               /\ chatError' = NULL
               /\ chatCalls' = Put(Tainted(chatCalls), k)
               /\ loads' = Overtaken(loads, FALSE)
               /\ cev' = [NoCev EXCEPT !.type = "send", !.call = k]
    /\ UNCHANGED <<currentPage, currentConversationId, conversationTitle, listenerConvId,
                   isEditingTitle, editingTitle, lastSel>>
    /\ UNCHANGED sidebarVars

\* handleSendMessage, after POST /chat settles (f: the failure, when not ok);
\* the 'conversation-created' event reaches the sidebar's listener
SendResp(k, ok, resp, f, idNow, now) ==
    /\ k \in ChatCalls /\ k.kind = "send"
    /\ ok => ClockReads(idNow, messages) /\ idNow <= now
    /\ LET adopt == ok /\ AdoptsConversation(k.conv, resp)
           reply == NewMessage("assistant", resp.response, resp.sources, idNow, now)
       IN /\ IF k.live
             THEN /\ messages' = MessagesAfterSend(ok, messages, reply)
                  /\ currentConversationId' =
                        IF adopt THEN resp.conversation_id ELSE currentConversationId
                  /\ conversationTitle' =
                        IF adopt THEN TitleFromMessage(k.content) ELSE conversationTitle
                  /\ chatError' = IF ok THEN chatError
                                  ELSE SendErrorMessage(SendMessageThrown(f))
                  /\ chatLoading' = FALSE
                  /\ loads' = Overtaken(loads, FALSE)
                  /\ chatCalls' = Tainted(Take(chatCalls, k))
             ELSE /\ chatCalls' = Take(chatCalls, k)
                  /\ UNCHANGED <<messages, currentConversationId, conversationTitle,
                                 chatError, chatLoading, loads>>
          /\ IF adopt
             THEN Dispatched("conversation-created")
             ELSE UNCHANGED <<sbLoading, sbLoads>>
          /\ cev' = [NoCev EXCEPT !.type = "sendDone", !.call = k, !.ok = ok,
                                  !.resp = IF ok THEN resp ELSE NoChatResponse,
                                  !.failure = IF ok THEN NoFailure ELSE f,
                                  !.listFetch = (sbLoads' # sbLoads)]
    /\ UNCHANGED <<currentPage, listenerConvId, isEditingTitle, editingTitle, lastSel,
                   sbMounted, sbConversations, sbSelected>>

\* handleDeleteConversation, up to the await of DELETE /conversations/{id}
\* (accepted: the answer to the confirm prompt); the button is rendered for
\* an active conversation only
DeleteConversation(accepted) ==
    /\ ChatMounted
    /\ Truthy(currentConversationId)
    /\ IF DeleteProceeds(accepted)
       THEN LET k == [NoCall EXCEPT !.kind = "delete", !.conv = currentConversationId,
                                    !.req = DeleteRequest(currentConversationId),
                                    !.prev = messages, !.prevId = currentConversationId,
                                    !.prevTitle = conversationTitle,
                                    !.live = TRUE, !.clean = TRUE]
            IN /\ BagCardinality(chatCalls) < MaxChatCalls
               /\ chatCalls' = Put(Tainted(chatCalls), k)
               /\ loads' = Overtaken(loads, FALSE)
               /\ cev' = [NoCev EXCEPT !.type = "delete", !.call = k, !.accepted = accepted,
                                       !.issued = (chatCalls' # chatCalls)]
       ELSE /\ UNCHANGED <<chatCalls, loads>>
            /\ cev' = [NoCev EXCEPT !.type = "delete", !.accepted = accepted,
                                    !.issued = (chatCalls' # chatCalls)]
    /\ UNCHANGED <<currentPage, messages, chatLoading, chatError, currentConversationId,
                   conversationTitle, listenerConvId, isEditingTitle, editingTitle, lastSel>>
    /\ UNCHANGED sidebarVars

\* handleDeleteConversation, after the DELETE settles
DeleteResp(k, ok, f) ==
    /\ k \in ChatCalls /\ k.kind = "delete"
    /\ IF k.live
       THEN /\ IF ResetsAfterDelete(ok)
               THEN /\ messages' = <<>>
                    /\ currentConversationId' = NULL
                    /\ conversationTitle' = NewChatTitle
               ELSE UNCHANGED <<messages, currentConversationId, conversationTitle>>
            /\ chatError' = IF ok THEN NULL
                            ELSE DetailOr(DeleteConversationThrown(f),
                                          "Failed to delete conversation")
            /\ loads' = Overtaken(loads, FALSE)
            /\ chatCalls' = Tainted(Take(chatCalls, k))
       ELSE /\ chatCalls' = Take(chatCalls, k)
            /\ UNCHANGED <<messages, currentConversationId, conversationTitle, chatError, loads>>
    /\ IF ok
       THEN Dispatched("conversation-deleted")
       ELSE UNCHANGED <<sbLoading, sbLoads>>
    /\ cev' = [NoCev EXCEPT !.type = "deleteDone", !.call = k, !.ok = ok,
                            !.listFetch = (sbLoads' # sbLoads)]
    /\ UNCHANGED <<currentPage, chatLoading, listenerConvId, isEditingTitle, editingTitle,
                   lastSel, sbMounted, sbConversations, sbSelected>>

\* handleStartEditTitle; the button is rendered for an active conversation
\* and stays rendered while the title is being edited
StartEditTitle ==
    /\ ChatMounted
    /\ Truthy(currentConversationId)
    /\ isEditingTitle' = TRUE
    /\ editingTitle' = conversationTitle
    /\ cev' = [NoCev EXCEPT !.type = "startEdit"]
    /\ UNCHANGED <<currentPage, messages, chatLoading, chatError, currentConversationId,
                   conversationTitle, listenerConvId, loads, chatCalls, lastSel>>
    /\ UNCHANGED sidebarVars

\* onChange of the title field
EditTitle(typed) ==
    /\ ChatMounted
    /\ isEditingTitle
    /\ typed # editingTitle
    /\ editingTitle' = typed
    /\ cev' = [NoCev EXCEPT !.type = "editTitle"]
    /\ UNCHANGED <<currentPage, messages, chatLoading, chatError, currentConversationId,
                   conversationTitle, listenerConvId, loads, isEditingTitle, chatCalls, lastSel>>
    /\ UNCHANGED sidebarVars

\* handleCancelEditTitle
CancelEditTitle ==
    /\ ChatMounted
    /\ isEditingTitle
    /\ isEditingTitle' = FALSE
    /\ editingTitle' = ""
    /\ cev' = [NoCev EXCEPT !.type = "cancelEdit"]
    /\ UNCHANGED <<currentPage, messages, chatLoading, chatError, currentConversationId,
                   conversationTitle, listenerConvId, loads, chatCalls, lastSel>>
    /\ UNCHANGED sidebarVars

\* handleSaveTitle, up to the await of PUT /conversations/{id}
SaveTitle ==
    /\ ChatMounted
    /\ isEditingTitle
    /\ IF SaveTitleProceeds(currentConversationId, editingTitle)
       THEN LET k == [NoCall EXCEPT !.kind = "rename", !.content = Trim(editingTitle),
                                    !.conv = currentConversationId,
                                    !.req = RenameRequest(currentConversationId,
                                                          Trim(editingTitle)),
                                    !.prev = messages, !.prevId = currentConversationId,
                                    !.prevTitle = conversationTitle,
                                    !.live = TRUE, !.clean = TRUE]
            IN /\ BagCardinality(chatCalls) < MaxChatCalls
               /\ chatCalls' = Put(Tainted(chatCalls), k)
               /\ loads' = Overtaken(loads, FALSE)
               /\ cev' = [NoCev EXCEPT !.type = "saveTitle", !.call = k,
                                       !.newTitle = editingTitle,
                                       !.issued = (chatCalls' # chatCalls)]
       ELSE /\ UNCHANGED <<chatCalls, loads>>
            /\ cev' = [NoCev EXCEPT !.type = "saveTitle", !.newTitle = editingTitle,
                                    !.issued = (chatCalls' # chatCalls)]
    /\ UNCHANGED <<currentPage, messages, chatLoading, chatError, currentConversationId,
                   conversationTitle, listenerConvId, isEditingTitle, editingTitle, lastSel>>
    /\ UNCHANGED sidebarVars

\* handleSaveTitle, after the PUT settles
RenameResp(k, ok, updated, f) ==
    /\ k \in ChatCalls /\ k.kind = "rename"
    /\ IF k.live
       THEN /\ conversationTitle' = TitleAfterRename(ok, updated, k.content, conversationTitle)
            /\ isEditingTitle' = IF ok THEN FALSE ELSE isEditingTitle
            /\ chatError' = IF ok THEN chatError
                            ELSE DetailOr(RenameConversationThrown(f),
                                          "Failed to rename conversation")
            /\ loads' = Overtaken(loads, FALSE)
            /\ chatCalls' = Tainted(Take(chatCalls, k))
       ELSE /\ chatCalls' = Take(chatCalls, k)
            /\ UNCHANGED <<conversationTitle, isEditingTitle, chatError, loads>>
    /\ IF ok
       THEN Dispatched("conversation-updated")
       ELSE UNCHANGED <<sbLoading, sbLoads>>
    /\ cev' = [NoCev EXCEPT !.type = "renameDone", !.call = k, !.ok = ok,
                            !.newTitle = IF ok THEN updated.title ELSE "",
                            !.listFetch = (sbLoads' # sbLoads)]
    /\ UNCHANGED <<currentPage, messages, chatLoading, currentConversationId, listenerConvId,
                   editingTitle, lastSel, sbMounted, sbConversations, sbSelected>>

(***************************************************************************)
(* Users page, library page and upload modal: the handlers.                *)
(***************************************************************************)
\* loadUsers, up to the await of GET /users
UsersLoadCall(body, live) ==
    [NoPageCall EXCEPT !.kind = "getUsers", !.method = "GET", !.path = "/users",
                       !.body = body, !.live = live]
\* loadDocuments, up to the await of GET /documents
DocsLoadCall(body, live) ==
    [NoPageCall EXCEPT !.kind = "getDocs", !.method = "GET", !.path = "/documents",
                       !.body = body, !.live = live]

\* UsersPage effect on [currentUser]
UsersMount ==
    /\ currentPage = "users" /\ ~pageMounted
    /\ pageMounted' = TRUE
    /\ IF LoadsUsers(user)
       THEN /\ BagCardinality(pageCalls) < MaxPageCalls
            /\ pageLoading' = TRUE
            /\ pageError' = ""
            /\ pageCalls' = IssueFetch(pageCalls, UsersLoadCall(serverUsers, TRUE))
       ELSE UNCHANGED <<pageLoading, pageError, pageCalls>>
    /\ cev' = [NoCev EXCEPT !.type = "usersMount", !.issued = (pageCalls' # pageCalls)]
    /\ UNCHANGED <<users, documents>>
    /\ UNCHANGED <<modalVars, backendVars, offPage>>

\* loadUsers, after GET /users settles
UsersResp(k, ok, f) ==
    /\ k \in PageCalls /\ k.kind = "getUsers"
    /\ pageCalls' = Take(pageCalls, k)
    /\ IF k.live
       THEN /\ users' = IF ok THEN k.body ELSE users
            /\ pageError' = IF ok THEN pageError
                            ELSE DetailOr(Thrown(f, "Failed to get users"), "Failed to load users")
            /\ pageLoading' = FALSE
       ELSE UNCHANGED <<users, pageError, pageLoading>>
    /\ cev' = [NoCev EXCEPT !.type = "usersDone", !.ok = ok, !.pcall = k]
    /\ UNCHANGED <<pageMounted, documents>>
    /\ UNCHANGED <<modalVars, backendVars, offPage>>

\* handleDeleteUser on a rendered row, up to the await of DELETE /users/{id}
\* (accepted: the answer to the confirm prompt); the button is rendered in
\* the list view, for rows whose role is not admin
DeleteUser(i, accepted) ==
    /\ currentPage = "users" /\ pageMounted
    /\ UsersView(user) = "list" /\ ~pageLoading
    /\ i \in 1..Len(users) /\ users[i].role # "admin"
    /\ IF PageDeleteProceeds(accepted)
       THEN LET k == [NoPageCall EXCEPT !.kind = "deleteUser", !.method = "DELETE",
                                        !.path = "/users/" \o users[i].id,
                                        !.target = users[i].id, !.live = TRUE]
            IN /\ BagCardinality(pageCalls) < MaxPageCalls
               /\ pageCalls' = Put(pageCalls, k)
               /\ cev' = [NoCev EXCEPT !.type = "deleteUser", !.accepted = accepted,
                                       !.issued = (pageCalls' # pageCalls), !.pcall = k]
       ELSE /\ UNCHANGED pageCalls
            /\ cev' = [NoCev EXCEPT !.type = "deleteUser", !.accepted = accepted,
                                    !.issued = (pageCalls' # pageCalls)]
    /\ UNCHANGED <<pageMounted, users, documents, pageLoading, pageError>>
    /\ UNCHANGED <<modalVars, backendVars, offPage>>

\* handleDeleteUser, after the DELETE settles: await loadUsers() up to its await
DeleteUserResp(k, ok, f) ==
    /\ k \in PageCalls /\ k.kind = "deleteUser"
    /\ serverUsers' = IF ok THEN Without(serverUsers, k.target) ELSE serverUsers
    /\ pageCalls' = IF ok THEN IssueFetch(Take(pageCalls, k),
                                    UsersLoadCall(Without(serverUsers, k.target), k.live))
                    ELSE Take(pageCalls, k)
    /\ IF k.live
       THEN /\ pageLoading' = IF ok THEN TRUE ELSE pageLoading
            /\ pageError' = IF ok THEN ""
                            ELSE DetailOr(Thrown(f, "Failed to delete user"), "Failed to delete user")
       ELSE UNCHANGED <<pageLoading, pageError>>
    /\ cev' = [NoCev EXCEPT !.type = "deleteUserDone", !.ok = ok, !.pcall = k,
                            !.listFetch = (pageCalls' # Take(pageCalls, k))]
    /\ UNCHANGED <<pageMounted, users, documents, serverDocs, docSeq, userSeq>>
    /\ UNCHANGED <<modalVars, offPage>>

\* LibraryPage effect on [currentUser]
LibraryMount ==
    /\ currentPage = "library" /\ ~pageMounted
    /\ pageMounted' = TRUE
    /\ IF LoadsDocuments(user)
       THEN /\ BagCardinality(pageCalls) < MaxPageCalls
            /\ pageLoading' = TRUE
            /\ pageError' = ""
            /\ pageCalls' = IssueFetch(pageCalls, DocsLoadCall(serverDocs, TRUE))
       ELSE UNCHANGED <<pageLoading, pageError, pageCalls>>
    /\ cev' = [NoCev EXCEPT !.type = "libraryMount", !.issued = (pageCalls' # pageCalls)]
    /\ UNCHANGED <<users, documents>>
    /\ UNCHANGED <<modalVars, backendVars, offPage>>

\* loadDocuments, after GET /documents settles
DocsResp(k, ok, f) ==
    /\ k \in PageCalls /\ k.kind = "getDocs"
    /\ pageCalls' = Take(pageCalls, k)
    /\ IF k.live
       THEN /\ documents' = IF ok THEN k.body ELSE documents
            /\ pageError' = IF ok THEN pageError
                            ELSE DetailOr(Thrown(f, "Failed to get documents"),
                                          "Failed to load documents")
            /\ pageLoading' = FALSE
       ELSE UNCHANGED <<documents, pageError, pageLoading>>
    /\ cev' = [NoCev EXCEPT !.type = "docsDone", !.ok = ok, !.pcall = k]
    /\ UNCHANGED <<pageMounted, users>>
    /\ UNCHANGED <<modalVars, backendVars, offPage>>

\* handleDeleteDocument on a rendered card, up to the await of
\* DELETE /documents/{id}; the button is rendered for doc.can_delete
DeleteDocument(i, accepted) ==
    /\ currentPage = "library" /\ pageMounted /\ ~pageLoading
    /\ i \in 1..Len(documents) /\ documents[i].can_delete
    /\ IF PageDeleteProceeds(accepted)
       THEN LET k == [NoPageCall EXCEPT !.kind = "deleteDoc", !.method = "DELETE",
                                        !.path = "/documents/" \o documents[i].id,
                                        !.target = documents[i].id, !.live = TRUE]
            IN /\ BagCardinality(pageCalls) < MaxPageCalls
               /\ pageCalls' = Put(pageCalls, k)
               /\ cev' = [NoCev EXCEPT !.type = "deleteDocument", !.accepted = accepted,
                                       !.issued = (pageCalls' # pageCalls), !.pcall = k]
       ELSE /\ UNCHANGED pageCalls
            /\ cev' = [NoCev EXCEPT !.type = "deleteDocument", !.accepted = accepted,
                                    !.issued = (pageCalls' # pageCalls)]
    /\ UNCHANGED <<pageMounted, users, documents, pageLoading, pageError>>
    /\ UNCHANGED <<modalVars, backendVars, offPage>>

\* handleDeleteDocument, after the DELETE settles: await loadDocuments() up
\* to its await
DeleteDocResp(k, ok, f) ==
    /\ k \in PageCalls /\ k.kind = "deleteDoc"
    /\ serverDocs' = IF ok THEN Without(serverDocs, k.target) ELSE serverDocs
    /\ pageCalls' = IF ok THEN IssueFetch(Take(pageCalls, k),
                                    DocsLoadCall(Without(serverDocs, k.target), k.live))
                    ELSE Take(pageCalls, k)
    /\ IF k.live
       THEN /\ pageLoading' = IF ok THEN TRUE ELSE pageLoading
            /\ pageError' = IF ok THEN ""
                            ELSE DetailOr(Thrown(f, "Failed to delete document"),
                                          "Failed to delete document")
       ELSE UNCHANGED <<pageLoading, pageError>>
    /\ cev' = [NoCev EXCEPT !.type = "deleteDocumentDone", !.ok = ok, !.pcall = k,
                            !.listFetch = (pageCalls' # Take(pageCalls, k))]
    /\ UNCHANGED <<pageMounted, users, documents, serverUsers, docSeq, userSeq>>
    /\ UNCHANGED <<modalVars, offPage>>

\* the DocumentModal effect for a modal that has just been opened on document
ModalOpened(document) ==
    /\ isModalOpen' = TRUE
    /\ editingDocument' = document
    /\ ownerType' = OwnerTypeOnOpen(IsEditMode(document), document)
    /\ fileContent' = ""
    /\ selectedFile' = NoFile
    /\ modalError' = NULL
    /\ UNCHANGED <<modalLoading, userModal>>

\* handleUploadDocument, with the modal's effect
OpenUpload ==
    /\ currentPage = "library" /\ pageMounted /\ ~isModalOpen
    /\ ModalOpened(NoDoc)
    /\ cev' = [NoCev EXCEPT !.type = "openUpload"]
    /\ UNCHANGED <<pageMounted, users, documents, pageLoading, pageError, pageCalls>>
    /\ UNCHANGED <<backendVars, offPage>>

\* handleEditDocument on a rendered card, with the modal's effect; the
\* button is rendered for doc.can_edit
OpenEdit(i) ==
    /\ currentPage = "library" /\ pageMounted /\ ~isModalOpen /\ ~pageLoading
    /\ i \in 1..Len(documents) /\ documents[i].can_edit
    /\ ModalOpened(documents[i])
    /\ cev' = [NoCev EXCEPT !.type = "openEdit", !.conv = documents[i].id]
    /\ UNCHANGED <<pageMounted, users, documents, pageLoading, pageError, pageCalls>>
    /\ UNCHANGED <<backendVars, offPage>>

\* handleModalClose (the dialog's close control or the Cancel button)
CloseModal ==
    /\ currentPage = "library" /\ isModalOpen
    /\ isModalOpen' = FALSE
    /\ editingDocument' = NoDoc
    /\ cev' = [NoCev EXCEPT !.type = "closeModal"]
    /\ UNCHANGED <<ownerType, selectedFile, fileContent, modalLoading, modalError,
                   userModal>>
    /\ UNCHANGED <<pageMounted, users, documents, pageLoading, pageError, pageCalls>>
    /\ UNCHANGED <<backendVars, offPage>>

\* the owner-type selector's onValueChange
SetOwnerType(value) ==
    /\ currentPage = "library" /\ isModalOpen
    /\ ToggleShown(IsEditMode(editingDocument), user)
    /\ ownerType' = value
    /\ cev' = [NoCev EXCEPT !.type = "setOwnerType"]
    /\ UNCHANGED <<isModalOpen, editingDocument, selectedFile, fileContent,
                   modalLoading, modalError, userModal>>
    /\ UNCHANGED <<pageMounted, users, documents, pageLoading, pageError, pageCalls>>
    /\ UNCHANGED <<backendVars, offPage>>

\* handleFileChange up to the await of extractFileContent: the file is
\* selected and the FileReader started; the file input is rendered only
\* while no file is selected
SelectFile(file) ==
    /\ currentPage = "library" /\ isModalOpen
    /\ ~IsEditMode(editingDocument) /\ selectedFile = NoFile
    /\ BagCardinality(pageCalls) < MaxPageCalls
    /\ LET k == [NoPageCall EXCEPT !.kind = "readFile", !.target = file.name,
                                    !.content = file.content, !.live = TRUE]
       IN /\ selectedFile' = file
          /\ pageCalls' = Put(pageCalls, k)
          /\ cev' = [NoCev EXCEPT !.type = "selectFile", !.pcall = k]
    /\ UNCHANGED <<isModalOpen, editingDocument, ownerType, fileContent, modalLoading,
                   modalError, userModal>>
    /\ UNCHANGED <<pageMounted, users, documents, pageLoading, pageError>>
    /\ UNCHANGED <<backendVars, offPage>>

\* handleFileChange after the FileReader settles (read: onload, otherwise
\* onerror), whatever the modal shows by then
FileRead(k, read) ==
    /\ k \in PageCalls /\ k.kind = "readFile"
    /\ pageCalls' = Take(pageCalls, k)
    /\ IF k.live
       THEN /\ selectedFile' = IF read THEN selectedFile ELSE NoFile
            /\ fileContent' = IF read THEN k.content ELSE ""
            /\ modalError' = IF read THEN modalError ELSE "Failed to read file content"
       ELSE UNCHANGED <<selectedFile, fileContent, modalError>>
    /\ cev' = [NoCev EXCEPT !.type = "fileRead", !.ok = read, !.pcall = k]
    /\ UNCHANGED <<isModalOpen, editingDocument, ownerType, modalLoading, userModal>>
    /\ UNCHANGED <<pageMounted, users, documents, pageLoading, pageError>>
    /\ UNCHANGED <<backendVars, offPage>>

\* removeFile
RemoveFile ==
    /\ currentPage = "library" /\ isModalOpen /\ selectedFile # NoFile
    /\ selectedFile' = NoFile
    /\ fileContent' = ""
    /\ cev' = [NoCev EXCEPT !.type = "removeFile"]
    /\ UNCHANGED <<isModalOpen, editingDocument, ownerType, modalLoading, modalError,
                   userModal>>
    /\ UNCHANGED <<pageMounted, users, documents, pageLoading, pageError, pageCalls>>
    /\ UNCHANGED <<backendVars, offPage>>

\* handleSubmit, up to the await of the POST; the button is disabled while
\* isLoading
Submit ==
    /\ currentPage = "library" /\ isModalOpen /\ ~modalLoading
    /\ LET isEditMode == IsEditMode(editingDocument)
           k == IF isEditMode /\ editingDocument # NoDoc
                THEN [NoPageCall EXCEPT !.kind = "updateDoc", !.method = "PUT",
                                        !.path = "/documents/" \o editingDocument.id,
                                        !.target = editingDocument.id,
                                        !.content = fileContent, !.live = TRUE]
                ELSE [NoPageCall EXCEPT !.kind = "createDoc", !.method = "POST",
                                        !.path = CreatePath(ownerType),
                                        !.target = ownerType,
                                        !.content = fileContent, !.live = TRUE]
       IN IF ~isEditMode /\ selectedFile = NoFile
          THEN /\ modalError' = "Please select a file to upload"
               /\ cev' = [NoCev EXCEPT !.type = "submit"]
               /\ UNCHANGED <<modalLoading, pageCalls>>
          ELSE /\ BagCardinality(pageCalls) < MaxPageCalls
               /\ docSeq < MaxDocs
               /\ modalLoading' = TRUE
               /\ modalError' = NULL
               /\ pageCalls' = Put(pageCalls, k)
               /\ cev' = [NoCev EXCEPT !.type = "submit", !.issued = TRUE, !.pcall = k]
    /\ UNCHANGED <<isModalOpen, editingDocument, ownerType, selectedFile, fileContent,
                   userModal>>
    /\ UNCHANGED <<pageMounted, users, documents, pageLoading, pageError>>
    /\ UNCHANGED <<backendVars, offPage>>

\* handleSubmit, after the POST settles: onSuccess() (handleModalSuccess ->
\* loadDocuments up to its await), onClose() (handleModalClose), and the
\* finally clause
SubmitResp(k, ok, f) ==
    /\ k \in PageCalls /\ k.kind = "createDoc"
    /\ LET doc == CreatedDoc(docSeq + 1, k.target)
           refetch == [DocsLoadCall(Append(serverDocs, doc), k.live) EXCEPT
                                           !.created = doc,
                                           !.viewBefore = documents,
                                           !.serverBefore = serverDocs]
       IN /\ serverDocs' = IF ok THEN Append(serverDocs, doc) ELSE serverDocs
          /\ docSeq' = IF ok THEN docSeq + 1 ELSE docSeq
          /\ pageCalls' = IF RefetchesAfterCreate(ok)
                          THEN IssueFetch(Take(pageCalls, k), refetch)
                          ELSE Take(pageCalls, k)
          /\ IF k.live
             THEN /\ pageLoading' = IF RefetchesAfterCreate(ok) THEN TRUE ELSE pageLoading
                  /\ pageError' = IF RefetchesAfterCreate(ok) THEN "" ELSE pageError
                  /\ isModalOpen' = IF ok THEN FALSE ELSE isModalOpen
                  /\ editingDocument' = IF ok THEN NoDoc ELSE editingDocument
                  /\ modalError' = IF ok THEN modalError
                                   ELSE DetailOr(Thrown(f, CreateFallback(k.target)),
                                                 "Failed to create document")
                  /\ modalLoading' = FALSE
             ELSE UNCHANGED <<pageLoading, pageError, isModalOpen, editingDocument,
                              modalError, modalLoading>>
          /\ cev' = [NoCev EXCEPT !.type = "submitDone", !.ok = ok, !.pcall = k,
                                  !.listFetch = (pageCalls' # Take(pageCalls, k))]
    /\ UNCHANGED <<pageMounted, users, documents, ownerType, selectedFile, fileContent,
                   serverUsers, userSeq, userModal>>
    /\ UNCHANGED offPage

\* the UserModal effect on [user, isOpen]: the form the modal shows for u
UserForm(m, open, u) ==
    [m EXCEPT !.isOpen = open, !.user = u,
              !.role = IF u # NoUser THEN u.role ELSE "user", !.error = ""]

\* handleAddUser, with the modal's effect; the button is rendered in the
\* list view
AddUser ==
    /\ currentPage = "users" /\ pageMounted
    /\ UsersView(user) = "list" /\ ~userModal.isOpen
    /\ userModal' = UserForm(userModal, TRUE, NoUser)
    /\ cev' = [NoCev EXCEPT !.type = "addUser"]
    /\ UNCHANGED <<pageMounted, users, documents, pageLoading, pageError, pageCalls>>
    /\ UNCHANGED <<docModalVars, backendVars, offPage>>

\* handleEditUser on a rendered row, with the modal's effect
EditUser(i) ==
    /\ currentPage = "users" /\ pageMounted
    /\ UsersView(user) = "list" /\ ~userModal.isOpen /\ ~pageLoading
    /\ i \in 1..Len(users)
    /\ userModal' = UserForm(userModal, TRUE, users[i])
    /\ cev' = [NoCev EXCEPT !.type = "editUser", !.conv = users[i].id]
    /\ UNCHANGED <<pageMounted, users, documents, pageLoading, pageError, pageCalls>>
    /\ UNCHANGED <<docModalVars, backendVars, offPage>>

\* UsersPage.handleModalClose (the dialog's close control or Cancel), with
\* the modal's effect
CloseUserModal ==
    /\ currentPage = "users" /\ userModal.isOpen
    /\ userModal' = UserForm(userModal, FALSE, NoUser)
    /\ cev' = [NoCev EXCEPT !.type = "closeUserModal"]
    /\ UNCHANGED <<pageMounted, users, documents, pageLoading, pageError, pageCalls>>
    /\ UNCHANGED <<docModalVars, backendVars, offPage>>

\* handleInputChange('role', value)
SetUserRole(value) ==
    /\ currentPage = "users" /\ userModal.isOpen
    /\ userModal' = [userModal EXCEPT !.role = value]
    /\ cev' = [NoCev EXCEPT !.type = "setUserRole"]
    /\ UNCHANGED <<pageMounted, users, documents, pageLoading, pageError, pageCalls>>
    /\ UNCHANGED <<docModalVars, backendVars, offPage>>

\* UserModal.handleSubmit, up to the await of POST /users or
\* PUT /users/{id}; the button is disabled while isLoading
SubmitUser ==
    /\ currentPage = "users" /\ userModal.isOpen /\ ~userModal.isLoading
    /\ BagCardinality(pageCalls) < MaxPageCalls
    /\ userModal.user = NoUser => userSeq < MaxNewUsers
    /\ LET k == IF userModal.user # NoUser
                THEN [NoPageCall EXCEPT !.kind = "updateUser", !.method = "PUT",
                                        !.path = "/users/" \o userModal.user.id,
                                        !.target = userModal.user.id,
                                        !.content = userModal.role, !.live = TRUE]
                ELSE [NoPageCall EXCEPT !.kind = "createUser", !.method = "POST",
                                        !.path = "/users", !.live = TRUE]
       IN /\ userModal' = [userModal EXCEPT !.isLoading = TRUE, !.error = ""]
          /\ pageCalls' = Put(pageCalls, k)
          /\ cev' = [NoCev EXCEPT !.type = "submitUser", !.issued = TRUE, !.pcall = k]
    /\ UNCHANGED <<pageMounted, users, documents, pageLoading, pageError>>
    /\ UNCHANGED <<docModalVars, backendVars, offPage>>

\* the accounts the backend holds after the request k has been served
UsersAfter(list, k, n) ==
    IF k.kind = "createUser"
    THEN Append(list, CreatedUser(n))
    ELSE [i \in 1..Len(list) |->
             IF list[i].id = k.target THEN [list[i] EXCEPT !.role = k.content] ELSE list[i]]

\* UserModal.handleSubmit, after the request settles: onSuccess()
\* (UsersPage.handleModalSuccess -> loadUsers up to its await), onClose()
\* (handleModalClose), and the finally clause
SubmitUserResp(k, ok, f) ==
    /\ k \in PageCalls /\ k.kind \in {"createUser", "updateUser"}
    /\ LET after == UsersAfter(serverUsers, k, userSeq + 1)
           fallback == IF k.kind = "updateUser" THEN "Failed to update user"
                                                ELSE "Failed to create user"
       IN /\ serverUsers' = IF ok THEN after ELSE serverUsers
          /\ userSeq' = IF ok /\ k.kind = "createUser" THEN userSeq + 1 ELSE userSeq
          /\ pageCalls' = IF ok THEN IssueFetch(Take(pageCalls, k), UsersLoadCall(after, k.live))
                                ELSE Take(pageCalls, k)
          /\ IF k.live
             THEN /\ pageLoading' = IF ok THEN TRUE ELSE pageLoading
                  /\ pageError' = IF ok THEN "" ELSE pageError
                  /\ userModal' =
                        IF ok THEN [UserForm(userModal, FALSE, NoUser) EXCEPT !.isLoading = FALSE]
                        ELSE [userModal EXCEPT !.isLoading = FALSE,
                                               !.error = DetailOr(Thrown(f, fallback), fallback)]
             ELSE UNCHANGED <<pageLoading, pageError, userModal>>
          /\ cev' = [NoCev EXCEPT !.type = "submitUserDone", !.ok = ok, !.pcall = k,
                                  !.listFetch = (pageCalls' # Take(pageCalls, k))]
    /\ UNCHANGED <<pageMounted, users, documents, serverDocs, docSeq>>
    /\ UNCHANGED <<docModalVars, offPage>>

(***************************************************************************)
(* Specifications.                                                         *)
(***************************************************************************)
\* no page but the chat page has been mounted; the backend holds the two
\* accounts and either no document or a shared one
PagesFresh ==
    /\ pageMounted = FALSE
    /\ users = <<>>
    /\ documents = <<>>
    /\ pageLoading = FALSE
    /\ pageError = ""
    /\ isModalOpen = FALSE
    /\ editingDocument = NoDoc
    /\ ownerType = "user"
    /\ selectedFile = NoFile
    /\ fileContent = ""
    /\ modalLoading = FALSE
    /\ modalError = NULL
    /\ userModal = NoUserModal
    /\ pageCalls = EmptyBag
    /\ serverUsers = <<[id |-> "u1", role |-> "admin"], [id |-> "u2", role |-> "user"]>>
    /\ serverDocs = <<SharedDoc>>
    /\ docSeq = 0
    /\ userSeq = 0

\* the shell as AppContent first renders it: chat page, nothing loaded
ShellFresh ==
    /\ currentPage = "chat"
    /\ messages = <<>>
    /\ chatLoading = FALSE
    /\ chatError = NULL
    /\ currentConversationId = NULL
    /\ conversationTitle = NewChatTitle
    /\ listenerConvId = NULL
    /\ loads = EmptyBag
    /\ isEditingTitle = FALSE
    /\ editingTitle = ""
    /\ chatCalls = EmptyBag
    /\ sbMounted = FALSE
    /\ sbConversations = <<>>
    /\ sbLoading = FALSE
    /\ sbSelected = NULL
    /\ sbLoads = EmptyBag
    /\ lastSel = NoSel
    /\ cev = NoCev
    /\ PagesFresh

\* state after construction of the AuthProvider: the token cell is whatever
\* an earlier visit left in durable storage
Init ==
    /\ token \in Tokens \cup {NULL}
    /\ user = NoUser
    /\ authLoading = TRUE
    /\ authMounted = FALSE
    /\ calls = EmptyBag
    /\ loggedOut = FALSE
    /\ ev = NoEv
    /\ failed = NoFailed
    /\ thrown = NoThrown
    /\ ShellFresh

wrapperVars == <<failed, thrown>>
sessionVars == <<authVars, ev, wrapperVars>>
shellVars == <<chatVars, sidebarVars, lastSel, cev, pageVars, wrapperVars>>
\* what a step of the chat view or the sidebar leaves alone
offShell == <<authVars, ev, pageVars, wrapperVars>>

\* the session store on its own
Next ==
    \/ AuthMount /\ UNCHANGED shellVars
    \/ \E e \in Emails, p \in Passwords : Login(e, p) /\ UNCHANGED shellVars
    \/ \E e \in Emails, p \in Passwords : Register(e, p) /\ UNCHANGED shellVars
    \/ \E k \in InFlight, ok \in BOOLEAN : RegisterResp(k, ok) /\ UNCHANGED shellVars
    \/ \E k \in InFlight, ok \in BOOLEAN, t \in Tokens : LoginResp(k, ok, t) /\ UNCHANGED shellVars
    \/ \E k \in InFlight, ok \in BOOLEAN, u \in Identities : MeResp(k, ok, u) /\ UNCHANGED shellVars
    \/ Logout /\ UNCHANGED shellVars

Spec == Init /\ [][Next]_vars

\* the REST client on its own: each wrapper operation meeting each failure
NextErrors ==
    \E op \in Operations, f \in AllFailures :
        WrapperFails(op, f)
        /\ UNCHANGED <<authVars, ev, chatVars, sidebarVars, lastSel, cev, pageVars>>

SpecErrors == Init /\ [][NextErrors]_vars

\* the shell of a signed-in session: the state AppContent reaches once a
\* login has resolved
InitChat ==
    /\ token = "t1"
    /\ user \in Identities
    /\ authLoading = FALSE
    /\ authMounted = TRUE
    /\ calls = EmptyBag
    /\ loggedOut = FALSE
    /\ ev = NoEv
    /\ failed = NoFailed
    /\ thrown = NoThrown
    /\ ShellFresh

\* the chat view, the sidebar and the page switch of a signed-in session
NextChat ==
    \/ SidebarMount /\ UNCHANGED offShell
    \/ \E r \in BagToSet(sbLoads), ok \in BOOLEAN, data \in ConvLists :
          ConversationsResp(r, ok, data) /\ UNCHANGED offShell
    \/ \E i \in 1..Len(sbConversations) : ConversationClick(i) /\ UNCHANGED sessionVars
    \/ \E k \in BagToSet(loads) : \E data \in MsgLists(k.conv) :
          LoadResp(k, TRUE, data, NoFailure) /\ UNCHANGED offShell
    \/ \E k \in BagToSet(loads), f \in Failures :
          LoadResp(k, FALSE, <<>>, f) /\ UNCHANGED offShell
    \/ NewChat /\ UNCHANGED sessionVars
    \/ \E page \in Pages : Navigate(page) /\ UNCHANGED sessionVars

SpecChat == InitChat /\ [][NextChat]_vars

\* the shell of a signed-in session once the sidebar has loaded its list and
\* either nothing is selected yet or a conversation has been selected and
\* its messages loaded
InitConv ==
    /\ token = "t1"
    /\ user = [id |-> "u2", role |-> "user"]
    /\ authLoading = FALSE
    /\ authMounted = TRUE
    /\ calls = EmptyBag
    /\ loggedOut = FALSE
    /\ ev = NoEv
    /\ failed = NoFailed
    /\ thrown = NoThrown
    /\ currentPage = "chat"
    /\ chatLoading = FALSE
    /\ chatError = NULL
    /\ listenerConvId = NULL
    /\ loads = EmptyBag
    /\ isEditingTitle = FALSE
    /\ editingTitle = ""
    /\ chatCalls = EmptyBag
    /\ sbMounted = TRUE
    /\ sbConversations = <<convA, convB>>
    /\ sbLoading = FALSE
    /\ sbLoads = EmptyBag
    /\ lastSel = NoSel
    /\ cev = NoCev
    /\ PagesFresh
    /\ \/ /\ currentConversationId = NULL
          /\ conversationTitle = NewChatTitle
          /\ messages = <<>>
          /\ sbSelected = convA.id
       \/ \E i \in 1..Len(sbConversations) :
             /\ currentConversationId = sbConversations[i].id
             /\ conversationTitle = ClickTitle(sbConversations[i])
             /\ messages \in {ToChatMessages(data) : data \in MsgLists(sbConversations[i].id)}
             /\ sbSelected = sbConversations[i].id

\* sending messages: the chat view's send, with the sidebar's new-chat
\* button and list refresh
NextSend ==
    \/ \E r \in BagToSet(sbLoads), ok \in BOOLEAN :
          ConversationsResp(r, ok, <<convA, convB>>) /\ UNCHANGED offShell
    \/ NewChat /\ UNCHANGED sessionVars
    \/ \E content \in Contents, r \in Readings : Send(content, r[1], r[2]) /\ UNCHANGED offShell
    \/ \E k \in ChatCalls, r \in Readings : \E resp \in ChatResponses(k.req) :
          SendResp(k, TRUE, resp, NoFailure, r[1], r[2]) /\ UNCHANGED offShell
    \/ \E k \in ChatCalls, f \in Failures :
          SendResp(k, FALSE, NoChatResponse, f, 0, 0) /\ UNCHANGED offShell

SpecSend == InitConv /\ [][NextSend]_vars

\* managing the active conversation: delete and rename
NextManage ==
    \/ \E accepted \in BOOLEAN : DeleteConversation(accepted) /\ UNCHANGED offShell
    \/ \E k \in ChatCalls, ok \in BOOLEAN, f \in Failures :
          DeleteResp(k, ok, f) /\ UNCHANGED offShell
    \/ StartEditTitle /\ UNCHANGED offShell
    \/ \E typed \in TitleInputs : EditTitle(typed) /\ UNCHANGED offShell
    \/ CancelEditTitle /\ UNCHANGED offShell
    \/ SaveTitle /\ UNCHANGED offShell
    \/ \E k \in ChatCalls : \E updated \in RenameResponses(k.req) :
          RenameResp(k, TRUE, updated, NoFailure) /\ UNCHANGED offShell
    \/ \E k \in ChatCalls, f \in Failures :
          RenameResp(k, FALSE, [id |-> "x", title |-> ""], f) /\ UNCHANGED offShell

SpecManage == InitConv /\ [][NextManage]_vars

\* the chat view against a backend that fails every request: selection,
\* send, delete and rename overlapping one another
NextFailures ==
    \/ ConversationClick(2) /\ UNCHANGED sessionVars
    \/ \E k \in BagToSet(loads), f \in Failures :
          LoadResp(k, FALSE, <<>>, f) /\ UNCHANGED offShell
    \/ Send(Text50, 1, 2) /\ UNCHANGED offShell
    \/ \E k \in ChatCalls, f \in Failures :
          SendResp(k, FALSE, NoChatResponse, f, 0, 0) /\ UNCHANGED offShell
    \/ DeleteConversation(TRUE) /\ UNCHANGED offShell
    \/ \E k \in ChatCalls, f \in Failures :
          DeleteResp(k, FALSE, f) /\ UNCHANGED offShell
    \/ StartEditTitle /\ UNCHANGED offShell
    \/ SaveTitle /\ UNCHANGED offShell
    \/ \E k \in ChatCalls, f \in Failures :
          RenameResp(k, FALSE, [id |-> "x", title |-> ""], f) /\ UNCHANGED offShell

\* conversation A selected and loaded, nothing in flight
InitFailures ==
    /\ InitConv
    /\ currentConversationId = convA.id
    /\ messages = ToChatMessages(<<PMsg(convA.id, 1, "user")>>)

SpecFailures == InitFailures /\ [][NextFailures]_vars

\* a signed-in session of an administrator or of an ordinary member, apart
\* from the mounted page: the sidebar has loaded its list, no page but the
\* chat page has been mounted, the backend holds the two accounts
SignedIn ==
    /\ token = "t1"
    /\ user \in Identities
    /\ authLoading = FALSE
    /\ authMounted = TRUE
    /\ calls = EmptyBag
    /\ loggedOut = FALSE
    /\ ev = NoEv
    /\ failed = NoFailed
    /\ thrown = NoThrown
    /\ chatLoading = FALSE
    /\ chatError = NULL
    /\ listenerConvId = NULL
    /\ loads = EmptyBag
    /\ isEditingTitle = FALSE
    /\ editingTitle = ""
    /\ chatCalls = EmptyBag
    /\ sbMounted = TRUE
    /\ sbConversations = <<convA, convB>>
    /\ sbLoading = FALSE
    /\ sbLoads = EmptyBag
    /\ sbSelected = convA.id
    /\ lastSel = NoSel
    /\ cev = NoCev
    /\ pageMounted = FALSE
    /\ users = <<>>
    /\ documents = <<>>
    /\ pageLoading = FALSE
    /\ pageError = ""
    /\ isModalOpen = FALSE
    /\ editingDocument = NoDoc
    /\ ownerType = "user"
    /\ selectedFile = NoFile
    /\ fileContent = ""
    /\ modalLoading = FALSE
    /\ modalError = NULL
    /\ userModal = NoUserModal
    /\ pageCalls = EmptyBag
    /\ serverUsers = <<[id |-> "u1", role |-> "admin"], [id |-> "u2", role |-> "user"]>>
    /\ docSeq = 0
    /\ userSeq = 0

\* on the chat page with conversation A selected and loaded; the backend
\* holds a shared document and a document of the member's own
InitPages ==
    /\ SignedIn
    /\ currentPage = "chat"
    /\ currentConversationId = convA.id
    /\ conversationTitle = ClickTitle(convA)
    /\ messages = ToChatMessages(<<PMsg(convA.id, 1, "user")>>)
    /\ serverDocs = <<SharedDoc, OwnDoc>>

offPages == <<authVars, ev, wrapperVars>>

\* the pages of a signed-in session: the page switch, the users page, the
\* library page's list, and the chat view's delete
NextPages ==
    \/ \E page \in Pages : Navigate(page) /\ UNCHANGED offPages
    \/ \E accepted \in BOOLEAN : DeleteConversation(accepted) /\ UNCHANGED offShell
    \/ \E k \in ChatCalls, ok \in BOOLEAN, f \in Failures :
          DeleteResp(k, ok, f) /\ UNCHANGED offShell
    \/ UsersMount /\ UNCHANGED offPages
    \/ \E k \in PageCalls : UsersResp(k, TRUE, NoFailure) /\ UNCHANGED offPages
    \/ \E k \in PageCalls, f \in Failures : UsersResp(k, FALSE, f) /\ UNCHANGED offPages
    \/ \E i \in 1..Len(users), accepted \in BOOLEAN :
          DeleteUser(i, accepted) /\ UNCHANGED offPages
    \/ \E k \in PageCalls : DeleteUserResp(k, TRUE, NoFailure) /\ UNCHANGED offPages
    \/ \E k \in PageCalls, f \in Failures : DeleteUserResp(k, FALSE, f) /\ UNCHANGED offPages
    \/ LibraryMount /\ UNCHANGED offPages
    \/ \E k \in PageCalls : DocsResp(k, TRUE, NoFailure) /\ UNCHANGED offPages
    \/ \E k \in PageCalls, f \in Failures : DocsResp(k, FALSE, f) /\ UNCHANGED offPages
    \/ \E i \in 1..Len(documents), accepted \in BOOLEAN :
          DeleteDocument(i, accepted) /\ UNCHANGED offPages
    \/ \E k \in PageCalls : DeleteDocResp(k, TRUE, NoFailure) /\ UNCHANGED offPages
    \/ \E k \in PageCalls, f \in Failures : DeleteDocResp(k, FALSE, f) /\ UNCHANGED offPages

SpecPages == InitPages /\ [][NextPages]_vars

\* on the users page, just switched to
InitUsers ==
    /\ SignedIn
    /\ currentPage = "users"
    /\ currentConversationId = NULL
    /\ conversationTitle = NewChatTitle
    /\ messages = <<>>
    /\ serverDocs = <<>>

\* the users page with its user modal: list, delete, create and update
NextUsers ==
    \/ UsersMount /\ UNCHANGED offPages
    \/ \E k \in PageCalls : UsersResp(k, TRUE, NoFailure) /\ UNCHANGED offPages
    \/ \E k \in PageCalls, f \in Failures : UsersResp(k, FALSE, f) /\ UNCHANGED offPages
    \/ \E i \in 1..Len(users) : DeleteUser(i, TRUE) /\ UNCHANGED offPages
    \/ \E k \in PageCalls : DeleteUserResp(k, TRUE, NoFailure) /\ UNCHANGED offPages
    \/ \E k \in PageCalls : DeleteUserResp(k, FALSE, DetailFailure) /\ UNCHANGED offPages
    \/ AddUser /\ UNCHANGED offPages
    \/ \E i \in {2} \cap (1..Len(users)) : EditUser(i) /\ UNCHANGED offPages
    \/ CloseUserModal /\ UNCHANGED offPages
    \/ SubmitUser /\ UNCHANGED offPages
    \/ \E k \in PageCalls : SubmitUserResp(k, TRUE, NoFailure) /\ UNCHANGED offPages
    \/ \E k \in PageCalls : SubmitUserResp(k, FALSE, DetailFailure) /\ UNCHANGED offPages

SpecUsers == InitUsers /\ [][NextUsers]_vars

\* editing accounts on the users page: the role field of the user modal
NextUserEdit ==
    \/ UsersMount /\ UNCHANGED offPages
    \/ \E k \in PageCalls : UsersResp(k, TRUE, NoFailure) /\ UNCHANGED offPages
    \/ \E i \in 1..Len(users) : EditUser(i) /\ UNCHANGED offPages
    \/ CloseUserModal /\ UNCHANGED offPages
    \/ \E value \in {"user", "admin"} : SetUserRole(value) /\ UNCHANGED offPages
    \/ SubmitUser /\ UNCHANGED offPages
    \/ \E k \in PageCalls : SubmitUserResp(k, TRUE, NoFailure) /\ UNCHANGED offPages
    \/ \E k \in PageCalls, f \in Failures : SubmitUserResp(k, FALSE, f) /\ UNCHANGED offPages

SpecUserEdit == InitUsers /\ [][NextUserEdit]_vars

\* on the library page, just switched to; the backend holds one shared
\* document
InitLibrary ==
    /\ SignedIn
    /\ currentPage = "library"
    /\ currentConversationId = NULL
    /\ conversationTitle = NewChatTitle
    /\ messages = <<>>
    /\ serverDocs = <<SharedDoc>>

\* the library page with its upload modal
NextLibrary ==
    \/ LibraryMount /\ UNCHANGED offPages
    \/ \E k \in PageCalls : DocsResp(k, TRUE, NoFailure) /\ UNCHANGED offPages
    \/ \E k \in PageCalls : DocsResp(k, FALSE, DetailFailure) /\ UNCHANGED offPages
    \/ OpenUpload /\ UNCHANGED offPages
    \/ \E i \in 1..Len(documents) : OpenEdit(i) /\ UNCHANGED offPages
    \/ CloseModal /\ UNCHANGED offPages
    \/ \E value \in {"user", "shared"} : SetOwnerType(value) /\ UNCHANGED offPages
    \/ SelectFile(File1) /\ UNCHANGED offPages
    \/ \E k \in PageCalls, read \in BOOLEAN : FileRead(k, read) /\ UNCHANGED offPages
    \/ RemoveFile /\ UNCHANGED offPages
    \/ Submit /\ UNCHANGED offPages
    \/ \E k \in PageCalls : SubmitResp(k, TRUE, NoFailure) /\ UNCHANGED offPages
    \/ \E k \in PageCalls : SubmitResp(k, FALSE, DetailFailure) /\ UNCHANGED offPages

SpecLibrary == InitLibrary /\ [][NextLibrary]_vars

(***************************************************************************)
(* Claims about the session store.                                         *)
(*                                                                         *)
(* ev describes the handler that ran last; ev.call is the record of the    *)
(* call that just settled, with the state it started from (priorToken,     *)
(* priorUser) and `clean`: no step of another session operation ran        *)
(* between its start and its end.                                          *)
(***************************************************************************)
Settled == ev.type = "done"
LoginPart == ev.call.kind \in {"login", "register"} /\ ev.call.postOk # "na"
Registers == {k \in InFlight : k.kind = "register"}
              \cup (IF Settled /\ ev.call.kind = "register" THEN {ev.call} ELSE {})
LoginRequests(k) == {i \in 1..Len(k.reqs) : k.reqs[i].path = "/login"}

\* C1: a login whose POST /login returned token T and whose GET /me returned
\* identity U ends with session identity U (isAuthenticated true) and, when
\* no other session operation ran during the call, with T as the stored token.
C1_LoginSuccess ==
    (Settled /\ LoginPart /\ ev.call.postOk = "ok" /\ ev.call.meOk = "ok")
        => /\ user = ev.call.ident
           /\ isAuthenticated
           /\ ev.outcome = "resolved"
           /\ (ev.call.clean => token = ev.call.tok)

C1_Witness ==
    /\ Settled /\ ev.call.kind = "login" /\ ev.call.clean
    /\ ev.call.postOk = "ok" /\ ev.call.meOk = "ok"
    /\ token = ev.call.tok /\ user = ev.call.ident

\* C2: a login started with no stored token that fails, at POST /login or at
\* the identity fetch after it, and runs with no other session operation in
\* between, ends with no stored token and with the session identity unset.
C2_LoginFailureNoToken ==
    (/\ Settled /\ LoginPart /\ ev.call.clean
     /\ ev.call.priorToken = NULL
     /\ (ev.call.postOk = "fail" \/ ev.call.meOk = "fail"))
        => token = NULL /\ user = NoUser

C2_Witness ==
    /\ Settled /\ ev.call.kind = "login" /\ ev.call.clean
    /\ ev.call.priorToken = NULL
    /\ ev.call.postOk = "ok" /\ ev.call.meOk = "fail"
    /\ ev.call.tok \in Tokens

\* C3 as stated: a login or register call that fails at any of its steps
\* (POST /register, POST /login, GET /me) ends with the stored token and the
\* session identity it started with, whatever they were.
C3_FailureLeavesStateUntouched ==
    (/\ Settled /\ ev.call.kind \in {"login", "register"} /\ ev.call.clean
     /\ (ev.call.regOk = "fail" \/ ev.call.postOk = "fail" \/ ev.call.meOk = "fail"))
        => token = ev.call.priorToken /\ user = ev.call.priorUser

\* C3 amended: a call that fails at POST /register or POST /login rejects and
\* ends with the token and identity it started with; a call whose GET /me
\* fails resolves, keeps the identity it started with and leaves no stored
\* token (each with no other session operation in between).
C3_FailureAmended ==
    (Settled /\ ev.call.kind \in {"login", "register"} /\ ev.call.clean)
        => /\ (ev.call.regOk = "fail" \/ ev.call.postOk = "fail")
                => /\ ev.outcome = "rejected"
                   /\ token = ev.call.priorToken /\ user = ev.call.priorUser
           /\ ev.call.meOk = "fail"
                => /\ ev.outcome = "resolved"
                   /\ token = NULL /\ user = ev.call.priorUser

C3_Witness ==
    /\ Settled /\ ev.call.kind = "login" /\ ev.call.clean
    /\ ev.call.priorToken \in Tokens
    /\ ev.call.meOk = "fail"
    /\ token = NULL

\* C4: a register call issues POST /register first; it issues POST /login
\* only after POST /register succeeded, with the email and password it was
\* given; when POST /register fails it issues no login request and (with no
\* other session operation in between) leaves token and identity unchanged.
C4_RegisterOrdering ==
    /\ \A k \in Registers :
          /\ Len(k.reqs) >= 1 /\ k.reqs[1].path = "/register"
          /\ k.reqs[1].email = k.email /\ k.reqs[1].password = k.password
          /\ \A i \in LoginRequests(k) :
                /\ i > 1 /\ k.regOk = "ok"
                /\ k.reqs[i].email = k.email /\ k.reqs[i].password = k.password
    /\ (Settled /\ ev.call.kind = "register" /\ ev.call.regOk = "fail")
          => /\ LoginRequests(ev.call) = {}
             /\ ev.call.clean => (token = ev.call.priorToken /\ user = ev.call.priorUser)

C4_Witness ==
    \E k \in InFlight :
        /\ k.kind = "register" /\ k.pc = "getMe"
        /\ LoginRequests(k) = {2}

\* C5: in every reachable state a non-null session identity implies that a
\* token is stored.
C5_IdentityImpliesToken == isAuthenticated => Truthy(token)

\* C6: right after logout no token is stored and the identity is null, and
\* as long as no login or register is started afterwards the identity stays
\* null.
C6_LogoutClears ==
    /\ ev.type = "logout" => (token = NULL /\ user = NoUser)
    /\ loggedOut => user = NoUser

\* C7: when a token is stored at startup and its identity fetch fails, the
\* token is removed, the identity is still null, the loading flag is false
\* and the login form is what is rendered; when no token is stored at
\* startup no identity fetch is issued and the loading flag is false.
C7_StartupValidation ==
    /\ (Settled /\ ev.call.kind = "startup" /\ ev.call.meOk = "fail")
          => /\ token = NULL /\ user = NoUser
             /\ ~authLoading /\ Screen = "login"
    /\ (ev.type = "mount" /\ ~Truthy(token))
          => /\ calls = EmptyBag /\ ev.req = NoReq
             /\ ~authLoading /\ Screen = "login"
    /\ (ev.type = "mount" /\ Truthy(token))
          => /\ ev.req.path = "/me"
             /\ \E k \in InFlight : k.kind = "startup" /\ k.pc = "getMe"

C7_Witness ==
    /\ Settled /\ ev.call.kind = "startup" /\ ev.call.meOk = "fail"
    /\ ev.call.priorToken \in Tokens

(***************************************************************************)
(* Claims about the chat view (specification SpecChat).                    *)
(*                                                                         *)
(* cev describes the handler that ran last: for a settled load, the load   *)
(* (cev.load, with `latest`: no selection was made after it, and `clean`:  *)
(* no other operation on the chat view ran since it was issued), the body  *)
(* received (cev.data) and the transcript before (cev.prev).  lastSel is   *)
(* the latest selection: the conversations whose loads it superseded and,  *)
(* once its own fetch has succeeded, the transcript that fetch produced.   *)
(***************************************************************************)

\* C8: when B is selected while the fetch of another conversation A is in
\* flight, then once all fetches have completed, in either order, and B's has
\* succeeded, the transcript is the one made from B's messages only and the
\* active conversation id is B.
C8_SelectRace ==
    (lastSel.state = "ok" /\ lastSel.superseded # {} /\ LiveLoads = {})
        => (messages = lastSel.chat /\ currentConversationId = lastSel.conv)

\* C9: when the fetch of a selection succeeds and no other operation on the
\* chat view ran since the selection, the transcript is the fetched messages
\* one-to-one in order (id, role, content, timestamp as a Date), nothing of
\* the previous transcript is kept, the active id is the selected id and the
\* title is the one the selection carried.
C9_SelectReplaces ==
    (cev.type = "loadDone" /\ cev.ok /\ cev.load.clean)
        => /\ Len(messages) = Len(cev.data)
           /\ \A i \in 1..Len(cev.data) :
                 /\ messages[i].id = cev.data[i].id
                 /\ messages[i].role = cev.data[i].role
                 /\ messages[i].content = cev.data[i].content
                 /\ messages[i].timestamp = [ms |-> cev.data[i].timestamp.iso]
           /\ currentConversationId = cev.load.conv
           /\ conversationTitle = cev.load.title

C9_Witness ==
    /\ cev.type = "loadDone" /\ cev.ok /\ cev.load.clean
    /\ cev.prev # <<>> /\ cev.data # <<>>
    /\ cev.prev[1].id # cev.data[1].id
    /\ messages = ToChatMessages(cev.data)

\* C10: a 'conversation-selected' event for the conversation that is the
\* chat view's active one issues no fetch and leaves the transcript, the
\* title, the loading flag and the error as they were.
C10_ReselectNoOp ==
    [][(cev'.type = "select" /\ ChatMounted /\ cev'.conv = currentConversationId)
          => /\ loads' = loads
             /\ messages' = messages
             /\ conversationTitle' = conversationTitle
             /\ chatLoading' = chatLoading
             /\ chatError' = chatError]_vars

(***************************************************************************)
(* Claims about sending a message (specification SpecSend).                *)
(*                                                                         *)
(* For a send step cev.call is the call: the text (content), the           *)
(* transcript, id and title the send started from (prev, prevId,           *)
(* prevTitle), the request issued (req) and `clean`: no other operation on *)
(* the chat view ran since the send started.  cev.resp is the body of a    *)
(* successful response.                                                    *)
(***************************************************************************)
SendStarted == cev.type = "send"
SendSettled == cev.type = "sendDone" /\ cev.call.clean /\ cev.call.live
\* transcript t is transcript p followed by n further entries
Extends(t, p, n) == Len(t) = Len(p) + n /\ SubSeq(t, 1, Len(p)) = p
IsUserEntry(m, k) == m.role = "user" /\ m.content = k.content /\ m.sources = NoSources
IsReply(m, resp) ==
    m.role = "assistant" /\ m.content = resp.response /\ m.sources = resp.sources

\* C11: when the POST /chat of a non-blank message is issued the user entry
\* is already the last entry of the transcript and the request carries the
\* active conversation id when there is one; after a successful response,
\* with no other operation in between, the transcript is the transcript
\* before the send followed by the user entry and then one assistant entry
\* with the response text and the returned citations.
C11_SendOrdering ==
    /\ SendStarted
          => /\ ~IsBlank(cev.call.content)
             /\ Extends(messages, cev.call.prev, 1)
             /\ IsUserEntry(messages[Len(messages)], cev.call)
             /\ cev.call.req.path = "/chat" /\ cev.call.req.message = cev.call.content
             /\ Truthy(cev.call.prevId) => cev.call.req.conversation_id = cev.call.prevId
    /\ \A k \in ChatCalls :
          (k.kind = "send" /\ k.clean /\ k.live)
             => /\ Extends(messages, k.prev, 1)
                /\ IsUserEntry(messages[Len(messages)], k)
    /\ (SendSettled /\ cev.ok)
          => /\ Extends(messages, cev.call.prev, 2)
             /\ IsUserEntry(messages[Len(messages) - 1], cev.call)
             /\ IsReply(messages[Len(messages)], cev.resp)

C11_Witness ==
    /\ SendSettled /\ cev.ok
    /\ cev.call.prev # <<>>
    /\ Truthy(cev.call.prevId)
    /\ cev.call.req.conversation_id = cev.call.prevId
    /\ cev.resp.sources # NoSources
    /\ Len(messages) = Len(cev.call.prev) + 2

NewChatSend == SendSettled /\ cev.ok /\ ~Truthy(cev.call.prevId)
                 /\ Truthy(cev.resp.conversation_id)
ActiveSend == SendSettled /\ cev.ok /\ Truthy(cev.call.prevId)

\* C12 as stated: a successful send with no active conversation issues one
\* request without a conversation id, the view adopts the returned id, and
\* the title is the sent text when it has at most 50 characters and
\* otherwise its first 50 characters plus one ellipsis character (51
\* characters in all); a send with an active conversation changes neither
\* the id nor the title.
C12_NewChatTitle ==
    /\ NewChatSend
          => /\ cev.call.req.conversation_id = NULL
             /\ currentConversationId = cev.resp.conversation_id
             /\ IF Len(cev.call.content) > TitleLimit
                THEN /\ Len(conversationTitle) = TitleLimit + 1
                     /\ SubSeq(conversationTitle, 1, TitleLimit)
                           = SubSeq(cev.call.content, 1, TitleLimit)
                ELSE conversationTitle = cev.call.content
    /\ ActiveSend
          => /\ currentConversationId = cev.call.prevId
             /\ conversationTitle = cev.call.prevTitle

\* C12 amended: as above, but the title of a text longer than 50 characters
\* is its first 50 characters followed by the three characters "...".
C12_NewChatTitleAmended ==
    /\ NewChatSend
          => /\ cev.call.req.conversation_id = NULL
             /\ currentConversationId = cev.resp.conversation_id
             /\ IF Len(cev.call.content) > TitleLimit
                THEN conversationTitle = SubSeq(cev.call.content, 1, TitleLimit) \o "..."
                ELSE conversationTitle = cev.call.content
    /\ ActiveSend
          => /\ currentConversationId = cev.call.prevId
             /\ conversationTitle = cev.call.prevTitle

C12_Witness ==
    /\ NewChatSend
    /\ Len(cev.call.content) = TitleLimit + 1
    /\ Len(conversationTitle) = TitleLimit + 3
    /\ currentConversationId = "N"

\* C13: after a POST /chat that fails, with no other operation in between,
\* the transcript is the transcript before the send followed by the user
\* entry only, the active id and the title are those before the send, an
\* error string is set and the loading flag is false.
C13_SendFailure ==
    (SendSettled /\ ~cev.ok)
        => /\ Extends(messages, cev.call.prev, 1)
           /\ IsUserEntry(messages[Len(messages)], cev.call)
           /\ currentConversationId = cev.call.prevId
           /\ conversationTitle = cev.call.prevTitle
           /\ Truthy(chatError)
           /\ ~chatLoading

C13_Witness ==
    /\ SendSettled /\ ~cev.ok
    /\ cev.call.prev # <<>>
    /\ chatError = "An error occurred"
    /\ messages[Len(messages)].role = "user"

(***************************************************************************)
(* Claims about deleting and renaming the active conversation              *)
(* (specification SpecManage).                                             *)
(***************************************************************************)
DeleteSettled == cev.type = "deleteDone" /\ cev.call.live
RenameSettled == cev.type = "renameDone" /\ cev.call.live /\ cev.call.clean

\* C14: the delete call is issued for the active conversation, and once it
\* has completed (the call resolved) the transcript is empty, no
\* conversation is active and the title is 'New Chat', whichever
\* conversation was active and whatever else ran meanwhile.
C14_DeleteResets ==
    /\ (cev.type = "delete" /\ cev.issued)
          => /\ cev.call.kind = "delete"
             /\ cev.call.conv = currentConversationId
    /\ (DeleteSettled /\ cev.ok)
          => /\ messages = <<>>
             /\ currentConversationId = NULL
             /\ conversationTitle = "New Chat"

C14_Witness ==
    /\ DeleteSettled /\ cev.ok
    /\ cev.call.conv = "B"
    /\ cev.call.prev # <<>>
    /\ messages = <<>>

\* C15: saving a title issues the update call, for the active conversation
\* and with the trimmed text, exactly when a conversation is active and the
\* trimmed text is not empty; after a successful call (no other operation
\* in between) the title shown is the one in the response and editing has
\* ended; after a failed call the title is the one from before.
C15_RenameAdoptsServerTitle ==
    /\ cev.type = "saveTitle"
          => /\ cev.issued <=> (currentConversationId # NULL /\ Trim(cev.newTitle) # "")
             /\ cev.issued
                  => /\ cev.call.kind = "rename"
                     /\ cev.call.conv = currentConversationId
                     /\ cev.call.req.method = "PUT"
                     /\ cev.call.req.title = Trim(cev.newTitle)
    /\ (RenameSettled /\ cev.ok)
          => /\ conversationTitle = cev.newTitle
             /\ ~isEditingTitle
    /\ (RenameSettled /\ ~cev.ok)
          => conversationTitle = cev.call.prevTitle

C15_Witness ==
    /\ RenameSettled /\ cev.ok
    /\ cev.call.content = "Renamed"
    /\ cev.newTitle = "Server title"
    /\ conversationTitle = "Server title"
    /\ ~isEditingTitle

\* C16: after the chat view has created a conversation (a first message
\* adopted a new id), renamed one or deleted one, the mounted sidebar issues
\* a new GET /conversations, and a list response replaces the sidebar's list.
C16_ListRefetch ==
    /\ (/\ cev.type \in {"sendDone", "renameDone", "deleteDone"} /\ cev.ok
        /\ cev.type = "sendDone" => AdoptsConversation(cev.call.conv, cev.resp)
        /\ sbMounted)
          => cev.listFetch
    /\ (cev.type = "listDone" /\ cev.ok) => sbConversations = cev.data

(***************************************************************************)
(* Claims about the users page, the library page and the upload modal.     *)
(*                                                                         *)
(* cev.pcall is the request the last page step issued or saw settle.       *)
(***************************************************************************)
\* the GET /documents that followed a create has succeeded on a mounted page
UploadRefetched ==
    cev.type = "docsDone" /\ cev.ok /\ cev.pcall.created # NoDoc /\ cev.pcall.live

\* a successful create is followed by a GET /documents
UploadIssuesRefetch ==
    cev.type = "submitDone" /\ cev.ok =>
        /\ cev.listFetch
        /\ \E k \in PageCalls : k.method = "GET" /\ k.path = "/documents" /\ k.created # NoDoc

\* C17 (as stated): after a successful create from the upload modal the
\* library page issues a GET /documents, and when that fetch has completed
\* the list contains the created document and has exactly one more item
\* than the page's list had before the creation.
C17_UploadRefetch ==
    /\ UploadIssuesRefetch
    /\ UploadRefetched =>
          /\ cev.pcall.created.id \in Ids(documents)
          /\ Len(documents) = Len(cev.pcall.viewBefore) + 1

\* C17 (amended): after a successful create from the upload modal the
\* library page issues a GET /documents, and when that fetch has completed
\* the list is the backend's collection: it contains the created document
\* and has exactly one more item than the backend held before the creation,
\* which is one more than the page showed whenever the page's list was up
\* to date then.
C17_UploadRefetchAmended ==
    /\ UploadIssuesRefetch
    /\ UploadRefetched =>
          /\ cev.pcall.created.id \in Ids(documents)
          /\ documents = Append(cev.pcall.serverBefore, cev.pcall.created)
          /\ Len(documents) = Len(cev.pcall.serverBefore) + 1
          /\ (cev.pcall.viewBefore = cev.pcall.serverBefore =>
                 Len(documents) = Len(cev.pcall.viewBefore) + 1)

\* an upload made from an up-to-date list of one document has been fetched back
C17_Witness ==
    /\ UploadRefetched
    /\ cev.pcall.viewBefore = <<SharedDoc>>
    /\ cev.pcall.serverBefore = <<SharedDoc>>
    /\ Len(documents) = 2

DeleteSteps == {"delete", "deleteUser", "deleteDocument"}
\* the DELETE requests in flight
DeletesInFlight(pc, cc) ==
    LET P == {k \in BagToSet(pc) : k.method = "DELETE"}
        C == {k \in BagToSet(cc) : k.req.method = "DELETE"}
    IN BagCardinality([k \in P |-> CopiesIn(k, pc)]) +
       BagCardinality([k \in C |-> CopiesIn(k, cc)])

\* C18: for users, documents and conversations a DELETE request is issued
\* only by a delete step whose confirmation prompt was accepted; a step
\* whose prompt was declined issues no request and leaves the list, the
\* transcript, the active conversation and the error as they were.
C18_DeleteNeedsConfirmation ==
    [][/\ DeletesInFlight(pageCalls', chatCalls') > DeletesInFlight(pageCalls, chatCalls) =>
             cev'.type \in DeleteSteps /\ cev'.accepted
       /\ cev'.type \in DeleteSteps =>
             /\ cev'.issued => cev'.accepted
             /\ ~cev'.accepted =>
                   /\ ~cev'.issued
                   /\ pageCalls' = pageCalls /\ chatCalls' = chatCalls
                   /\ UNCHANGED <<users, documents, messages, currentConversationId,
                                  conversationTitle, chatError, pageError>>]_vars

\* the prompt of a document's delete button has just been declined
C18_Witness ==
    /\ cev.type = "deleteDocument" /\ ~cev.accepted
    /\ Len(documents) > 0 /\ pageCalls = EmptyBag

\* C19: a session whose identity is not an administrator gets the
\* access-denied view on the users page, never holds a user list, never
\* opens the user modal, never runs an add, edit or delete of a user, and
\* never issues GET /users or any other request under /users.
C19_UsersPageAdminOnly ==
    user.role # "admin" =>
        /\ UsersView(user) = "denied"
        /\ users = <<>>
        /\ ~userModal.isOpen
        /\ \A k \in PageCalls :
              /\ k.kind \notin {"getUsers", "deleteUser", "createUser", "updateUser"}
              /\ k.path # "/users"
        /\ cev.type \notin {"usersDone", "deleteUser", "deleteUserDone", "addUser",
                            "editUser", "submitUser", "submitUserDone"}
        /\ cev.type = "usersMount" => ~cev.issued

\* an ordinary member has switched to the users page and its effect has run
C19_Witness ==
    /\ user.role = "user" /\ currentPage = "users" /\ pageMounted
    /\ cev.type = "usersMount"

\* C20: a session whose identity is not an administrator never issues
\* POST /documents/shared; every upload it submits goes to POST /documents,
\* whatever was opened, closed and re-opened before.
C20_NonAdminPersonalOnly ==
    user.role # "admin" =>
        /\ \A k \in PageCalls :
              /\ k.path # "/documents/shared"
              /\ k.kind = "createDoc" => k.method = "POST" /\ k.path = "/documents"
        /\ cev.type = "submit" /\ cev.issued =>
              cev.pcall.method = "POST" /\ cev.pcall.path = "/documents"

\* an ordinary member has submitted an upload from the modal opened on an
\* existing shared document
C20_Witness ==
    /\ user.role = "user" /\ cev.type = "submit" /\ cev.issued
    /\ editingDocument = SharedDoc

(***************************************************************************)
(* Claims about the REST client.                                           *)
(***************************************************************************)
\* the last session step issued a request
IssuedRequest == ev.req.path # "none"

\* C21: every request carries the Authorization header of token T exactly
\* when T is the token stored at the moment the request is issued: the
\* header is absent when nothing is stored, the identity fetch inside login
\* carries the token POST /login has just returned, and a login or register
\* started while nothing is stored (as logout leaves it) sends no header.
C21_BearerInjection ==
    /\ IssuedRequest => ev.req.auth = (IF Truthy(token) THEN token ELSE NULL)
    /\ IssuedRequest => (ev.req.auth = NULL <=> ~Truthy(token))
    /\ ev.type = "loginResp" /\ IssuedRequest =>
          ev.req.path = "/me" /\ Truthy(ev.call.tok) /\ ev.req.auth = ev.call.tok
    /\ ev.type \in {"login", "register"} /\ ~Truthy(ev.call.priorToken) =>
          ev.req.auth = NULL

\* the identity fetch of a login has been issued with the token just
\* returned, which differs from the one stored when the login started
C21_Witness ==
    /\ ev.type = "loginResp" /\ IssuedRequest
    /\ ev.req.auth = ev.call.tok
    /\ ev.call.priorToken # ev.call.tok
    /\ Truthy(ev.call.priorToken)

\* the uniform error shape: a detail string and a status code
UniformShape(t) == ~t.isError /\ t.detail # "" /\ t.status # 0
\* the detail and the status the uniform shape prescribes for failure f of op
UniformDetail(op, f) == IF f.detail # "" THEN f.detail ELSE Fallback(op)
UniformStatus(f) == IF f.status # 0 THEN f.status ELSE 500
HasFailed == failed.op # "none"

\* C22 (as stated): for every wrapper operation a failure is reported as a
\* value with a detail string (the backend's when the response carries one,
\* else the operation's fallback text) and a status code (the response's,
\* or 500 when absent).
C22_UniformErrorShape ==
    HasFailed =>
        /\ UniformShape(thrown)
        /\ thrown.detail = UniformDetail(failed.op, failed.failure)
        /\ thrown.status = UniformStatus(failed.failure)

\* C22 (amended): for every wrapper operation other than healthCheck, a
\* failure that is an axios error is reported as a value with a detail string
\* (the backend's when the response carries one, else the operation's
\* fallback text) and a status code (the response's, or 500 when absent); a
\* failure that is not an axios error is reported as an Error with the
\* message 'An unexpected error occurred', and every failure of healthCheck
\* as an Error with the message 'Backend is not available', neither with a
\* detail or a status.
C22_UniformErrorShapeAmended ==
    HasFailed =>
        IF failed.op = "healthCheck"
        THEN thrown.isError /\ thrown.message = "Backend is not available"
             /\ thrown.detail = "" /\ thrown.status = 0
        ELSE IF failed.failure.axios
        THEN /\ UniformShape(thrown)
             /\ thrown.detail = UniformDetail(failed.op, failed.failure)
             /\ thrown.status = UniformStatus(failed.failure)
        ELSE thrown.isError /\ thrown.message = "An unexpected error occurred"
             /\ thrown.detail = "" /\ thrown.status = 0

\* login has failed with a response that carries neither detail nor status
C22_Witness ==
    /\ failed.op = "login" /\ failed.failure.axios
    /\ failed.failure.detail = "" /\ failed.failure.status = 0
    /\ thrown.detail = "Login failed" /\ thrown.status = 500

\* ---------------------------------------------------------------------------
\* Claims about failures in the chat view
\* ---------------------------------------------------------------------------

\* requests of the chat view in flight
ChatPending(l, c) == BagCardinality(l) + BagCardinality(c)

\* the last step was the catch block of a request of the mounted chat view
FailedLoadOrSend ==
    \/ cev.type = "loadDone" /\ ~cev.ok
    \/ cev.type = "sendDone" /\ ~cev.ok /\ cev.call.live
FailedRenameOrDelete ==
    cev.type \in {"renameDone", "deleteDone"} /\ ~cev.ok /\ cev.call.live

\* C23 as stated: a failed load, send, rename or delete ends with a non-empty
\* error string, the loading flag false and no request issued by the handler
C23_FailureShownNoRetry ==
    [][(FailedLoadOrSend' \/ FailedRenameOrDelete')
          => /\ Truthy(chatError')
             /\ chatLoading' = FALSE
             /\ ChatPending(loads', chatCalls') = ChatPending(loads, chatCalls) - 1]_vars

\* C23 amended: a failed load or send ends with a non-empty error string and
\* the loading flag false; a failed rename or delete ends with a non-empty
\* error string and the loading flag as it was; none of them issues a request
C23_FailureShownNoRetryAmended ==
    [][/\ FailedLoadOrSend' => Truthy(chatError') /\ chatLoading' = FALSE
       /\ FailedRenameOrDelete' => Truthy(chatError') /\ chatLoading' = chatLoading
       /\ (FailedLoadOrSend' \/ FailedRenameOrDelete')
             => ChatPending(loads', chatCalls') = ChatPending(loads, chatCalls) - 1]_vars

\* a rename has failed while a send of the same view is still in flight
C23_Witness ==
    /\ cev.type = "renameDone" /\ ~cev.ok /\ cev.call.live
    /\ Truthy(chatError) /\ chatLoading
    /\ \E k \in ChatCalls : k.kind = "send"

\* C24: when a send or a conversation load fails with a response carrying a
\* detail string, the error shown is that detail string
C24_BackendDetailShown ==
    (FailedLoadOrSend /\ cev.failure.axios /\ cev.failure.detail # "")
        => chatError = cev.failure.detail

\* ---------------------------------------------------------------------------
\* Claims about broadcasts, overlapping requests and the views' consistency
\* ---------------------------------------------------------------------------

\* the chat view as its mount leaves it
InNewChatState ==
    /\ messages = <<>> /\ currentConversationId = NULL
    /\ conversationTitle = NewChatTitle /\ chatError = NULL /\ ~chatLoading

\* C25: a 'conversation-selected' broadcast made while the chat view is not
\* mounted is lost: the view that mounts afterwards is in the new-chat state
\* with no message fetch of its own, and a message fetch is only ever issued
\* by a selection made while the chat view is mounted
C25_MissedBroadcast ==
    [][/\ cev'.type = "selectLost"
            => /\ currentPage \in {"users", "library"} /\ currentPage' = "chat"
               /\ InNewChatState' /\ LiveLoads' = {}
               /\ loads' = loads
       /\ BagCardinality(loads') > BagCardinality(loads)
            => currentPage = "chat" /\ cev'.type = "select"]_vars

\* conversation A was clicked on the users or library page; the chat view has
\* mounted with nothing selected while the sidebar highlights A
C25_Witness ==
    /\ cev.type = "selectLost" /\ cev.conv = convA.id
    /\ currentPage = "chat" /\ InNewChatState /\ LiveLoads = {}
    /\ sbSelected = convA.id

\* the last step delivered the reply of a send during whose flight the user
\* selected a conversation or requested a new chat
LateReply == cev.type = "sendDone" /\ cev.ok /\ cev.call.live /\ ~cev.call.clean

\* C26: a reply that arrives after the user has moved to another
\* conversation or to a new chat is not appended to the transcript now shown
\* and changes neither the active conversation id nor the title
C26_ReplyStaysWithItsConversation ==
    [][LateReply' => /\ messages' = messages
                     /\ currentConversationId' = currentConversationId
                     /\ conversationTitle' = conversationTitle]_vars

\* the sidebar and the chat view are both mounted and neither waits for a
\* response
ShellQuiet ==
    /\ sbMounted /\ ChatMounted
    /\ sbLoads = EmptyBag /\ loads = EmptyBag /\ chatCalls = EmptyBag

\* C27: whenever the sidebar and the chat view are mounted with no request
\* in flight, the conversation highlighted in the sidebar is the chat
\* view's active conversation (none in the new-chat state)
C27_HighlightConsistency == ShellQuiet => sbSelected = currentConversationId

\* C28: a submit of the document modal opened through Edit on a document
\* issues PUT /documents/{id} for that document and never a create; a create
\* is issued only when the modal was opened through Upload Document
C28_EditIssuesUpdate ==
    (cev.type = "submit" /\ cev.issued)
        => IF editingDocument # NoDoc
           THEN /\ cev.pcall.method = "PUT"
                /\ cev.pcall.path = "/documents/" \o editingDocument.id
           ELSE cev.pcall.kind = "createDoc"

\* a conversation load or a send of the mounted chat view is in flight
ChatRequestPending ==
    \/ LiveLoads # {}
    \/ \E k \in ChatCalls : k.kind = "send" /\ k.live

\* C29: the chat view's loading flag is true exactly while one of its own
\* loads or sends is in flight
C29_LoadingIffPending == ChatMounted => (chatLoading <=> ChatRequestPending)

\* fetches of the mounted page's list still in flight
LiveFetches == {k \in PageCalls : k.kind \in {"getUsers", "getDocs"} /\ k.live}

\* the last of the page's full fetches has just been answered, and none of
\* them failed since the last one was issued
FetchesSettled ==
    /\ cev.type \in {"usersDone", "docsDone"} /\ cev.ok /\ cev.pcall.live
    /\ LiveFetches = {} /\ pageError = ""

\* C30: once every full fetch a list view issued has been answered, the
\* list shown is the response of the fetch issued last, whatever order the
\* responses arrived in
C30_NoStaleList ==
    FetchesSettled
        => IF cev.type = "usersDone" THEN users = cev.pcall.newest
                                     ELSE documents = cev.pcall.newest

====
